---- MODULE Spec2Model ----
(***************************************************************************)
(* Reconciliation of one S3 bucket resource: creation, the update pass     *)
(* over the facets, the read pass and (forced) deletion, as implemented in *)
(* aws/resource_aws_s3_bucket.go.                                          *)
(*                                                                         *)
(* The resource data `d` is modelled by two maps: `state` (the recorded    *)
(* attributes of the prior state, the "old" side of d.HasChange) and `d`   *)
(* (the values d.Get returns: configuration merged over the state, then    *)
(* overwritten by d.Set).  The remote bucket is `exists`, `rem`, `objects`.*)
(* Every remote call is one step; `calls` logs the calls of the running    *)
(* operation together with the remote's answers.                           *)
(***************************************************************************)
EXTENDS Integers, Sequences, FiniteSets, TLC

\* ------------------------------------------------------------------ bounds
\* transient (retryable) error answers the remote gives during one operation
MaxTransient == 1
\* object versions and delete markers a bucket can hold
MaxObjects == 2
\* entries one ListObjectVersions answer carries (the remote's page size)
MaxKeys == 1
\* recursion levels of a forced delete that are told apart (the counter saturates)
MaxDepth == 2
\* length up to which every bucket name over the sample alphabet is validated
MaxNameLen == 3
\* longest redirect target made of arbitrary characters
MaxUrlLen == 3
\* tags a lifecycle rule carries
MaxTags == 2
\* largest day count of a lifecycle expiration
MaxDays == 2

\* ------------------------------------------------------------------ facets
\* an update pass that runs the replication synchronizer before versioning
OrderReplicationFirst ==
  << "tags", "policy", "cors_rule", "website", "replication_configuration",
     "versioning", "acl", "logging", "lifecycle_rule", "acceleration_status",
     "request_payer", "server_side_encryption_configuration",
     "object_lock_configuration" >>

\* the order in which resourceAwsS3BucketUpdate runs the synchronizers
Order ==
  << "tags", "policy", "cors_rule", "website", "versioning", "acl", "logging",
     "lifecycle_rule", "acceleration_status", "request_payer",
     "replication_configuration", "server_side_encryption_configuration",
     "object_lock_configuration" >>

Facets == { Order[i] : i \in 1..Len(Order) }

Pos(f) == CHOOSE i \in 1..Len(Order) : Order[i] = f

\* attributes with Computed: true keep their recorded value when the
\* configuration omits them
Computed == { "versioning", "acceleration_status", "request_payer" }

\* value of an attribute the configuration does not set
SchemaDefault(f) == IF f = "acl" THEN "private" ELSE ""

\* the value a configuration gives to a facet it does configure
OnValue(f) ==
  CASE f = "acl" -> "public-read"
    [] f = "acceleration_status" -> "Enabled"
    [] f = "request_payer" -> "Requester"
    [] f = "versioning" -> "enabled"
    [] OTHER -> "set"

ZeroState == [f \in Facets |-> ""]

ConfigOf(S, ver) ==
  [f \in Facets |-> IF f = "versioning" THEN ver
                    ELSE IF f \in S THEN OnValue(f) ELSE SchemaDefault(f)]

\* the configurations handed to Create and Update: nothing configured, one
\* facet configured, or replication together with a versioning block
Configs ==
  { ConfigOf({}, v) : v \in {"", "disabled", "enabled"} }
    \cup { ConfigOf({f}, "") : f \in Facets \ {"versioning"} }
    \cup { ConfigOf({"replication_configuration"}, v) : v \in {"disabled", "enabled"} }

\* a d.Get that forgets the recorded value of Computed attributes
MergeWithoutComputed(cfg, st) == cfg

\* d.Get: the configuration over the recorded state
Merge(cfg, st) ==
  [f \in Facets |-> IF f \in Computed /\ cfg[f] = "" THEN st[f] ELSE cfg[f]]

\* ------------------------------------------------------------- remote calls
\* the remote call setTagsS3 issues for the desired tag set v
TagsCall(v) == IF v = "" THEN "DeleteBucketTagging" ELSE "PutBucketTagging"

TagCalls == { "DeleteBucketTagging", "PutBucketTagging" }

\* the error codes setTagsS3 retries its calls on
TagsRetryable == { "NoSuchBucket" }

\* the remote call a synchronizer issues for the desired value v of facet f
CallOf(f, v) ==
  CASE f = "tags" -> TagsCall(v)
    [] f = "policy" -> IF v = "" THEN "DeleteBucketPolicy" ELSE "PutBucketPolicy"
    [] f = "cors_rule" -> IF v = "" THEN "DeleteBucketCors" ELSE "PutBucketCors"
    [] f = "website" -> IF v = "" THEN "DeleteBucketWebsite" ELSE "PutBucketWebsite"
    [] f = "versioning" -> "PutBucketVersioning"
    [] f = "acl" -> "PutBucketAcl"
    [] f = "logging" -> "PutBucketLogging"
    [] f = "lifecycle_rule" ->
         IF v = "" THEN "DeleteBucketLifecycle" ELSE "PutBucketLifecycleConfiguration"
    [] f = "acceleration_status" -> "PutBucketAccelerateConfiguration"
    [] f = "request_payer" -> "PutBucketRequestPayment"
    [] f = "replication_configuration" ->
         IF v = "" THEN "DeleteBucketReplication" ELSE "PutBucketReplication"
    [] f = "server_side_encryption_configuration" ->
         IF v = "" THEN "DeleteBucketEncryption" ELSE "PutBucketEncryption"
    [] OTHER -> "PutObjectLockConfiguration"

\* calls issued bare, without any retry wrapper
UnwrappedCalls ==
  { "DeleteBucketEncryption", "DeleteBucketReplication", "DeleteBucketLifecycle",
    "DeleteBucket", "ListObjectVersions", "DeleteObjects" }

\* calls whose retry loop is written out at the call site with resource.Retry
InlineRetryCalls == { "CreateBucket", "PutBucketPolicy", "PutBucketReplication" }

\* a retry loop around CreateBucket that repeats the call on every error
RetryableAtAnyCreateError(c) ==
  CASE c = "CreateBucket" -> { "OperationAborted", "AccessDenied" }
    [] c = "PutBucketPolicy" -> { "MalformedPolicy", "NoSuchBucket" }
    [] c = "PutBucketReplication" -> { "NoSuchBucket", "InvalidRequest" }
    [] c \in UnwrappedCalls -> {}
    [] c \in TagCalls -> TagsRetryable
    [] OTHER -> { "NoSuchBucket" }

\* a loop around PutBucketReplication that retries InvalidRequest whatever
\* its message
RetryableAtAnyInvalidRequest(c) ==
  CASE c = "CreateBucket" -> { "OperationAborted" }
    [] c = "PutBucketPolicy" -> { "MalformedPolicy", "NoSuchBucket" }
    [] c = "PutBucketReplication" ->
         { "NoSuchBucket", "InvalidRequest", "InvalidRequestOther" }
    [] c \in UnwrappedCalls -> {}
    [] c \in TagCalls -> TagsRetryable
    [] OTHER -> { "NoSuchBucket" }

\* the error codes the retry loop around a call classifies as retryable
RetryableAt(c) ==
  CASE c = "CreateBucket" -> { "OperationAborted" }
    [] c = "PutBucketPolicy" -> { "MalformedPolicy", "NoSuchBucket" }
    [] c = "PutBucketReplication" -> { "NoSuchBucket", "InvalidRequest" }
    [] c \in UnwrappedCalls -> {}
    [] c \in TagCalls -> TagsRetryable
    [] OTHER -> { "NoSuchBucket" }

\* call sites that return the error of resource.Retry as it is
TimeoutRetryAtNone(c) == FALSE

\* the call sites that test isResourceTimeoutError after resource.Retry and
\* then issue the call once more
TimeoutRetryAt(c) == c \in InlineRetryCalls

\* retryOnAwsCode repeats the operation once after its deadline has expired
RetryOnAwsCodeFinalAttempt == TRUE

\* whether one more attempt follows the expiry of the deadline at call c
FinalAttemptAt(c) ==
  IF c \in InlineRetryCalls THEN TimeoutRetryAt(c) ELSE RetryOnAwsCodeFinalAttempt

\* what the loop around call c does with answer r: "success", "again"
\* (invoke once more inside the loop), "final" (deadline expired, one last
\* attempt follows) or "fail" (the error is returned)
RetryOutcome(c, r, final, expire) ==
  IF r = "ok" THEN "success"
  ELSE IF final THEN "fail"
  ELSE IF r \in RetryableAt(c)
       THEN IF ~expire THEN "again"
            ELSE IF FinalAttemptAt(c) THEN "final" ELSE "fail"
  ELSE "fail"

\* the transient answers of the remote to a call
TransientCodes(c) ==
  CASE c = "CreateBucket" -> { "OperationAborted" }
    [] c = "PutBucketPolicy" -> { "MalformedPolicy", "NoSuchBucket" }
    [] c = "PutBucketReplication" -> { "NoSuchBucket", "InvalidRequest" }
    [] OTHER -> { "NoSuchBucket" }

AllTransient == { "OperationAborted", "MalformedPolicy", "NoSuchBucket", "InvalidRequest" }

\* ---------------------------------------------------------------- variables
VARIABLES
  pc,          \* position of the control flow: "idle", "done" or the pending call
  op,          \* the running operation: "create", "update", "read", "delete"
  id,          \* d.Id()
  isNew,       \* d.IsNewResource()
  state,       \* recorded attributes (prior state)
  d,           \* values d.Get returns
  force,       \* d.Get("force_destroy")
  exists,      \* the remote bucket exists
  rem,         \* remote configuration of the bucket, per facet
  objects,     \* object versions and delete markers in the bucket
  listed,      \* answer of the last ListObjectVersions
  calls,       \* remote calls of the running operation (of the innermost
               \* recursion level for a delete), with the remote's answers
  transients,  \* transient answers given during the running operation
  timedOut,    \* the retry deadline of the pending call has expired
  result,      \* what the operation returned: "ok" or an error
  failedAt,    \* the synchronizer or step that returned the error
  depth,       \* recursion depth of the running delete (saturating)
  bucketDeletes, \* DeleteBucket calls of the running delete that succeeded
  wrote,       \* a writer or a partial batch delete interfered with the delete
  disturbed,   \* the same, since the last DeleteBucket attempt
  config,      \* the configuration the running operation was called with
  readFault,   \* the error the remote answered in the read pass, and where
  region,      \* the configured region, d.GetOk("region") ("" when not set)
  metaRegion,  \* the provider's region, meta.(*AWSClient).region
  req          \* the CreateBucketInput built by Create

vars ==
  << pc, op, id, isNew, state, d, force, exists, rem, objects, listed, calls,
     transients, timedOut, result, failedAt, depth, bucketDeletes, wrote,
     disturbed, config, readFault, region, metaRegion, req >>

resourceVars == << id, isNew, state, d, force >>
remoteVars == << exists, rem, objects >>
deleteVars == << listed, depth, bucketDeletes, wrote, disturbed >>
createVars == << region, metaRegion, req >>

\* a bucket name, as a sequence of characters
BucketName == << "b", "u", "c", "k", "e", "t" >>

\* no error was answered in the read pass
NoFault == [step |-> "none", code |-> ""]

\* no CreateBucketInput has been built
NoRequest ==
  [Bucket |-> << >>, ACL |-> "", LocationConstraint |-> "",
   ObjectLockEnabledForBucket |-> FALSE]

\* a listing answer that carries nothing
NoListing == [DeleteMarkers |-> {}, Versions |-> {}]

Objects == 1..MaxObjects

\* a change detection that also reports the acl of a new resource
ChangedAlsoAclOfNew(f, dd, st, new) == dd[f] # st[f]

\* a change detection that never reports the acl
ChangedNeverAcl(f, dd, st, new) == dd[f] # st[f] /\ f # "acl"

\* a change detection that reports versioning on every pass
ChangedAlwaysVersioning(f, dd, st, new) ==
  \/ f = "versioning"
  \/ dd[f] # st[f] /\ (f = "acl" => ~new)

\* a change detection that only reports facets that had a recorded value
ChangedOnlyRecorded(f, dd, st, new) ==
  /\ dd[f] # st[f]
  /\ st[f] # ""
  /\ (f = "acl" => ~new)

\* ---------------------------------------------------------------- update pass
\* d.HasChange(f), with the creation-pass exclusion of acl
Changed(f, dd, st, new) ==
  /\ dd[f] # st[f]
  /\ (f = "acl" => ~new)

\* a check that is content with any versioning block, enabled or not
ReplicationNeedsVersioningBlock(dd) ==
  /\ dd["replication_configuration"] # ""
  /\ dd["versioning"] = ""

\* the replication synchronizer's check that versioning is enabled
ReplicationNeedsVersioning(dd) ==
  /\ dd["replication_configuration"] # ""
  /\ dd["versioning"] # "enabled"

\* the error a synchronizer returns before any remote call, "" if none
LocalError(f, dd) ==
  IF f = "replication_configuration" /\ ReplicationNeedsVersioning(dd)
  THEN "versioning must be enabled"
  ELSE ""

\* the next synchronizer the pass runs after position i, "Read" if none is left
NextPos(i, dd, st, new) ==
  LET later == { j \in (i+1)..Len(Order) : Changed(Order[j], dd, st, new) }
  IN IF later = {} THEN "Read"
     ELSE Order[CHOOSE j \in later : \A k \in later : j <= k]

\* an update pass that returns nil after its last synchronizer, without a read
\* pass
PassFromWithoutRead(i, dd, st, new) ==
  LET p == NextPos(i, dd, st, new)
  IN IF p = "Read" THEN [pc |-> "done", result |-> "ok", failedAt |-> ""]
     ELSE IF LocalError(p, dd) # ""
     THEN [pc |-> "done", result |-> LocalError(p, dd), failedAt |-> p]
     ELSE [pc |-> p, result |-> "", failedAt |-> ""]

\* the update pass after the synchronizers up to position i have returned nil:
\* the next changed facet's synchronizer runs, and it either returns an error
\* at once or issues its remote call
PassFrom(i, dd, st, new) ==
  LET p == NextPos(i, dd, st, new)
  IN IF p # "Read" /\ LocalError(p, dd) # ""
     THEN [pc |-> "done", result |-> LocalError(p, dd), failedAt |-> p]
     ELSE [pc |-> p, result |-> "", failedAt |-> ""]

\* a pass that drops the error of a synchronizer and carries on
PassStepIgnoringError(i, err, dd, st, new) == PassFrom(i, dd, st, new)

\* `if err := synchronizer(); err != nil { return err }` for the synchronizer
\* at position i, which returned err ("" for nil)
PassStep(i, err, dd, st, new) ==
  IF err # ""
  THEN [pc |-> "done", result |-> err, failedAt |-> Order[i]]
  ELSE PassFrom(i, dd, st, new)

\* the control flow takes the position, result and failing step of record n
Goto(n) ==
  /\ pc' = n.pc
  /\ result' = n.result
  /\ failedAt' = n.failedAt

\* what the remote stores when call c for value v of facet f succeeds
Stored(f, v, c) ==
  IF f = "versioning" THEN (IF v = "enabled" THEN "enabled" ELSE "disabled")
  ELSE v

\* the error answers of the remote to call c that no call site retries;
\* "InvalidRequestOther" is the code InvalidRequest with a message other than
\* "Versioning must be 'Enabled' on the bucket"
PermanentCodes(c) ==
  IF c = "PutBucketReplication"
  THEN { "AccessDenied", "InvalidRequestOther" }
  ELSE { "AccessDenied" }

AllPermanent == { "AccessDenied", "InvalidRequestOther" }

\* the remote's possible answers to call c
Responses(c) ==
  { "ok" } \cup PermanentCodes(c)
    \cup (IF transients < MaxTransient THEN TransientCodes(c) ELSE {})

\* a log entry: the call, the facet it serves, its argument, the remote's
\* answer, and whether it is the attempt made after the deadline expired
Logged(c, f, a, r) ==
  [call |-> c, facet |-> f, arg |-> a, resp |-> r, final |-> timedOut]

CountTransient(r) == IF r \in AllTransient THEN transients + 1 ELSE transients

\* ---------------------------------------------------------------- bucket names
\* a name is a sequence of characters; the character classes of the two
\* patterns of validateS3BucketName
Lower ==
  { "a", "b", "c", "d", "e", "f", "g", "h", "i", "j", "k", "l", "m", "n", "o",
    "p", "q", "r", "s", "t", "u", "v", "w", "x", "y", "z" }

Upper ==
  { "A", "B", "C", "D", "E", "F", "G", "H", "I", "J", "K", "L", "M", "N", "O",
    "P", "Q", "R", "S", "T", "U", "V", "W", "X", "Y", "Z" }

Digits == { "0", "1", "2", "3", "4", "5", "6", "7", "8", "9" }

\* the class [0-9a-z-.]
DnsChars == Digits \cup Lower \cup { "-", "." }

\* the class [0-9a-zA-Z-.], without the underscore
ClassicCharsNoUnderscore == Digits \cup Lower \cup Upper \cup { "-", "." }

\* the class [0-9a-zA-Z-._]
ClassicChars == Digits \cup Lower \cup Upper \cup { "-", ".", "_" }

\* lengths validateS3BucketName compares len(value) with
MinDnsLength == 3
MaxDnsLength == 63
MaxClassicLength == 255

\* ^[class]+$ matches value
MatchesClass(value, class) ==
  /\ Len(value) >= 1
  /\ \A i \in 1..Len(value) : value[i] \in class

\* [0-9]{n} matches value at positions p .. p+n-1
DigitRun(value, p, n) ==
  /\ p + n - 1 <= Len(value)
  /\ \A i \in p..(p + n - 1) : value[i] \in Digits

RECURSIVE MatchesGroups(_, _, _)
\* (?:[0-9]{1,3}\.){k}[0-9]{1,3}$ matches value from position p
MatchesGroups(value, p, k) ==
  IF k = 0
  THEN \E n \in 1..3 : DigitRun(value, p, n) /\ p + n - 1 = Len(value)
  ELSE \E n \in 1..3 :
         /\ DigitRun(value, p, n)
         /\ p + n <= Len(value)
         /\ value[p + n] = "."
         /\ MatchesGroups(value, p + n + 1, k - 1)

\* ^(?:[0-9]{1,3}\.){2}[0-9]{1,3}$, a pattern of three groups
MatchesThreeGroups(value) == MatchesGroups(value, 1, 2)

\* ^(?:[0-9]{1,3}\.){3}[0-9]{1,3}$ matches value
MatchesIPAddress(value) == MatchesGroups(value, 1, 3)

\* strings.HasPrefix(value, ".")
HasPrefixPeriod(value) == Len(value) >= 1 /\ value[1] = "."

\* strings.HasSuffix(value, ".")
HasSuffixPeriod(value) == Len(value) >= 1 /\ value[Len(value)] = "."

\* strings.Contains(value, "..")
ContainsTwoPeriods(value) ==
  \E i \in 1..(Len(value) - 1) : value[i] = "." /\ value[i + 1] = "."

\* a validation that accepts every name
validateS3BucketNameAcceptingAll(value, rgn) == ""

\* validateS3BucketName: the error it returns, "" for nil
validateS3BucketName(value, rgn) ==
  IF rgn # "us-east-1"
  THEN IF Len(value) < MinDnsLength \/ Len(value) > MaxDnsLength
       THEN "must contain from 3 to 63 characters"
       ELSE IF ~MatchesClass(value, DnsChars)
       THEN "only lowercase alphanumeric characters and hyphens allowed"
       ELSE IF MatchesIPAddress(value)
       THEN "must not be formatted as an IP address"
       ELSE IF HasPrefixPeriod(value)
       THEN "cannot start with a period"
       ELSE IF HasSuffixPeriod(value)
       THEN "cannot end with a period"
       ELSE IF ContainsTwoPeriods(value)
       THEN "can be only one period between labels"
       ELSE ""
  ELSE IF Len(value) > MaxClassicLength
       THEN "must contain less than 256 characters"
       ELSE IF ~MatchesClass(value, ClassicChars)
       THEN "only alphanumeric characters, hyphens, periods, and underscores allowed"
       ELSE ""

\* a Create that targets the provider's region whatever is configured
AwsRegionOfProvider(configured, provider) == provider

\* the region Create targets
AwsRegion(configured, provider) ==
  IF configured # "" THEN configured ELSE provider

\* the CreateBucketInput Create builds before it validates the name
CreateBucketInput(bucket, acl, awsRegion) ==
  [Bucket |-> bucket,
   ACL |-> acl,
   LocationConstraint |-> IF awsRegion # "us-east-1" THEN awsRegion ELSE "",
   ObjectLockEnabledForBucket |-> FALSE]

\* the regions a configuration names ("" when it names none) and the
\* provider's regions
ConfiguredRegions == { "", "us-east-1", "eu-west-1" }
ProviderRegions == { "us-east-1", "us-west-2" }

\* the bucket names Create is called with: one that every region accepts
\* and one that no region accepts
CreateNames == { BucketName, << "m", "y", "!" >> }

\* ---------------------------------------------------------------- Create
\* the remote configuration of a bucket just created
CreatedRemote(dd) ==
  [f \in Facets |->
     IF f = "acl" THEN dd["acl"]
     ELSE IF f = "object_lock_configuration" THEN dd[f]
     ELSE ""]

\* resourceAwsS3BucketCreate up to the validation of the bucket name
Create(cfg, bucket, configured, provider) ==
  /\ pc = "idle"
  /\ id = << >>
  /\ ~exists
  /\ pc' = "validateS3BucketName"
  /\ op' = "create"
  /\ isNew' = TRUE
  /\ state' = ZeroState
  /\ d' = Merge(cfg, ZeroState)
  /\ config' = cfg
  /\ readFault' = NoFault
  /\ region' = configured
  /\ metaRegion' = provider
  /\ req' = CreateBucketInput(bucket, Merge(cfg, ZeroState)["acl"],
                              AwsRegion(configured, provider))
  /\ calls' = << >>
  /\ transients' = 0
  /\ timedOut' = FALSE
  /\ result' = ""
  /\ failedAt' = ""
  /\ listed' = NoListing
  /\ depth' = 0
  /\ bucketDeletes' = 0
  /\ wrote' = FALSE
  /\ disturbed' = FALSE
  /\ UNCHANGED << id, force, remoteVars >>

\* Create validates the bucket name and, when it is valid, completes the
\* request with the object lock flag
ValidateBucketName ==
  /\ pc = "validateS3BucketName"
  /\ LET err == validateS3BucketName(req.Bucket, AwsRegion(region, metaRegion))
     IN IF err # ""
        THEN /\ pc' = "done"
             /\ result' = err
             /\ failedAt' = "validateS3BucketName"
             /\ req' = req
        ELSE /\ pc' = "CreateBucket"
             /\ req' = [req EXCEPT !.ObjectLockEnabledForBucket =
                                     d["object_lock_configuration"] # ""]
             /\ UNCHANGED << result, failedAt >>
  /\ UNCHANGED << op, resourceVars, remoteVars, deleteVars, calls, transients,
                  timedOut, config, readFault, region, metaRegion >>

\* a Create that records the ID only after the update pass has returned nil
CreateBucketNotRecordingId(r, expire) ==
  /\ pc = "CreateBucket"
  /\ r \in Responses("CreateBucket")
  /\ calls' = Append(calls, Logged("CreateBucket", "", req, r))
  /\ transients' = CountTransient(r)
  /\ LET o == RetryOutcome("CreateBucket", r, timedOut, expire)
     IN CASE o = "success" ->
               /\ exists' = TRUE
               /\ rem' = CreatedRemote(d)
               /\ id' = id
               /\ timedOut' = FALSE
               /\ Goto(PassFrom(0, d, state, isNew))
          [] o = "again" ->
               /\ UNCHANGED << pc, result, failedAt, timedOut, id, exists, rem >>
          [] o = "final" ->
               /\ timedOut' = TRUE
               /\ UNCHANGED << pc, result, failedAt, id, exists, rem >>
          [] OTHER ->
               /\ pc' = "done"
               /\ result' = r
               /\ failedAt' = "CreateBucket"
               /\ timedOut' = FALSE
               /\ UNCHANGED << id, exists, rem >>
  /\ UNCHANGED << op, isNew, state, d, force, objects, deleteVars, config, readFault,
                  createVars >>

\* one CreateBucket attempt and what Create does with its answer
CreateBucket(r, expire) ==
  /\ pc = "CreateBucket"
  /\ r \in Responses("CreateBucket")
  /\ calls' = Append(calls, Logged("CreateBucket", "", req, r))
  /\ transients' = CountTransient(r)
  /\ LET o == RetryOutcome("CreateBucket", r, timedOut, expire)
     IN CASE o = "success" ->
               /\ exists' = TRUE
               /\ rem' = CreatedRemote(d)
               /\ id' = req.Bucket
               /\ timedOut' = FALSE
               /\ Goto(PassFrom(0, d, state, isNew))
          [] o = "again" ->
               /\ UNCHANGED << pc, result, failedAt, timedOut, id, exists, rem >>
          [] o = "final" ->
               /\ timedOut' = TRUE
               /\ UNCHANGED << pc, result, failedAt, id, exists, rem >>
          [] OTHER ->
               /\ pc' = "done"
               /\ result' = r
               /\ failedAt' = "CreateBucket"
               /\ timedOut' = FALSE
               /\ UNCHANGED << id, exists, rem >>
  /\ UNCHANGED << op, isNew, state, d, force, objects, deleteVars, config, readFault,
                  createVars >>

\* ---------------------------------------------------------------- Update
\* a schema without ForceNew: no change replaces the resource
ForcesNewNothing(cfg, st) == FALSE

\* attributes with ForceNew: true: a change of them replaces the resource
\* instead of updating it (object_lock_enabled is required in its block)
ForcesNew(cfg, st) ==
  (cfg["object_lock_configuration"] = "") # (st["object_lock_configuration"] = "")

\* resourceAwsS3BucketUpdate called for a new desired state
Update(cfg) ==
  /\ pc = "idle"
  /\ id # << >>
  /\ result = "ok"
  /\ ~ForcesNew(cfg, state)
  /\ op' = "update"
  /\ isNew' = FALSE
  /\ d' = Merge(cfg, state)
  /\ calls' = << >>
  /\ transients' = 0
  /\ timedOut' = FALSE
  /\ config' = cfg
  /\ readFault' = NoFault
  /\ Goto(PassFrom(0, Merge(cfg, state), state, FALSE))
  /\ UNCHANGED << id, state, force, remoteVars, deleteVars, createVars >>

\* one attempt of the pending synchronizer's remote call
Sync(r, expire) ==
  /\ pc \in Facets
  /\ LET f == pc
         c == CallOf(f, d[f])
         o == RetryOutcome(c, r, timedOut, expire)
     IN /\ r \in Responses(c)
        /\ calls' = Append(calls, Logged(c, f, d[f], r))
        /\ transients' = CountTransient(r)
        /\ CASE o = "success" ->
                  /\ rem' = [rem EXCEPT ![f] = Stored(f, d[f], c)]
                  /\ timedOut' = FALSE
                  /\ Goto(PassStep(Pos(f), "", d, state, isNew))
             [] o = "again" ->
                  /\ UNCHANGED << pc, result, failedAt, timedOut, rem >>
             [] o = "final" ->
                  /\ timedOut' = TRUE
                  /\ UNCHANGED << pc, result, failedAt, rem >>
             [] OTHER ->
                  /\ Goto(PassStep(Pos(f), r, d, state, isNew))
                  /\ timedOut' = FALSE
                  /\ UNCHANGED rem
  /\ UNCHANGED << op, resourceVars, exists, objects, deleteVars, config, readFault,
                  createVars >>

\* ---------------------------------------------------------------- Read
\* the steps of resourceAwsS3BucketRead that can return an error, in order
ReadSteps ==
  << "HeadBucket", "policy", "cors_rule", "website", "versioning",
     "acceleration_status", "request_payer", "logging", "lifecycle_rule",
     "replication_configuration", "server_side_encryption_configuration",
     "object_lock_configuration", "region", "website_endpoint", "tags" >>

ReadPos(s) == CHOOSE i \in 1..Len(ReadSteps) : ReadSteps[i] = s

\* the steps at which a remote error makes the read pass return an error
ReadFailSteps == { ReadSteps[i] : i \in 1..Len(ReadSteps) } \ { "policy" }

\* the error codes a read step takes for "nothing to read" and goes on
ToleratedAt(s) ==
  CASE s = "cors_rule" -> { "NoSuchCORSConfiguration" }
    [] s = "website" -> { "NotImplemented", "NoSuchWebsiteConfiguration" }
    [] s = "acceleration_status" -> { "MethodNotAllowed", "UnsupportedArgument" }
    [] s = "lifecycle_rule" -> { "NoSuchLifecycleConfiguration" }
    [] s = "replication_configuration" ->
         { "ReplicationConfigurationNotFoundError" }
    [] s = "server_side_encryption_configuration" ->
         { "ServerSideEncryptionConfigurationNotFoundError" }
    [] s = "object_lock_configuration" ->
         { "ObjectLockConfigurationNotFoundError" }
    [] OTHER -> {}

\* the error codes by which the remote says that a feature is not offered
NotSupportedCodes == { "NotImplemented", "MethodNotAllowed", "UnsupportedArgument" }

\* the error codes the remote may answer at a read step
ReadFaultsAt(s) ==
  CASE s = "policy" -> { "NoSuchBucketPolicy", "AccessDenied" }
    [] s \in { "cors_rule", "website", "lifecycle_rule",
               "replication_configuration",
               "server_side_encryption_configuration",
               "object_lock_configuration" } ->
         ToleratedAt(s) \cup { "NotImplemented", "MethodNotAllowed", "AccessDenied" }
    [] s = "acceleration_status" ->
         ToleratedAt(s) \cup { "NotImplemented", "AccessDenied" }
    [] OTHER -> { "AccessDenied" }

\* the read step that answered fault makes the pass return the error
ReadFails(fault) ==
  /\ fault.step \in ReadFailSteps
  /\ fault.code \notin ToleratedAt(fault.step)

\* a read pass that gets the policy whether or not one is recorded
ReadValueAlwaysPolicy(f, dd, fault) ==
  CASE fault.step = f -> ""
    [] f = "versioning" -> IF rem[f] = "enabled" THEN "enabled" ELSE "disabled"
    [] f = "request_payer" -> IF rem[f] = "" THEN "BucketOwner" ELSE rem[f]
    [] OTHER -> rem[f]

\* the value the read pass records for facet f
ReadValue(f, dd, fault) ==
  CASE f = "policy" ->
         IF dd[f] = "" THEN "" ELSE IF fault.step = f THEN "" ELSE rem[f]
    [] fault.step = f -> ""
    [] f = "versioning" -> IF rem[f] = "enabled" THEN "enabled" ELSE "disabled"
    [] f = "request_payer" -> IF rem[f] = "" THEN "BucketOwner" ELSE rem[f]
    [] OTHER -> rem[f]

\* a read pass that records its values only when it got through every step
ReadIntoAllOrNothing(dd, n, fault) ==
  [f \in Facets |->
     IF f # "acl" /\ n = Len(ReadSteps) THEN ReadValue(f, dd, fault) ELSE dd[f]]

\* d after a read pass that got as far as step number n
ReadInto(dd, n, fault) ==
  [f \in Facets |->
     IF f # "acl" /\ ReadPos(f) <= n THEN ReadValue(f, dd, fault) ELSE dd[f]]

\* a read pass that returns the error of a HeadBucket answered 404
ReadNotFoundIsError(fault) ==
  /\ pc = "Read"
  /\ IF ~exists
     THEN /\ fault = NoFault
          /\ id' = id
          /\ result' = "NotFound"
          /\ failedAt' = "Read"
          /\ d' = d
     ELSE IF fault = NoFault
     THEN /\ d' = ReadInto(d, Len(ReadSteps), fault)
          /\ result' = "ok"
          /\ failedAt' = ""
          /\ id' = id
     ELSE /\ fault.code \in ReadFaultsAt(fault.step)
          /\ (fault.step = "policy" => d["policy"] # "")
          /\ (fault.step = "website_endpoint" => rem["website"] # "")
          /\ (fault.code \in ToleratedAt(fault.step) => rem[fault.step] = "")
          /\ id' = id
          /\ IF ReadFails(fault)
             THEN /\ d' = ReadInto(d, ReadPos(fault.step) - 1, fault)
                  /\ result' = fault.code
                  /\ failedAt' = "Read"
             ELSE /\ d' = ReadInto(d, Len(ReadSteps), fault)
                  /\ result' = "ok"
                  /\ failedAt' = ""
  /\ readFault' = fault
  /\ pc' = "done"
  /\ UNCHANGED << op, isNew, state, force, remoteVars, calls, transients,
                  timedOut, deleteVars, config, createVars >>

\* resourceAwsS3BucketRead; fault is the error the remote answers, and the
\* step it answers it at
Read(fault) ==
  /\ pc = "Read"
  /\ IF ~exists
     THEN /\ fault = NoFault
          /\ id' = << >>
          /\ result' = "ok"
          /\ failedAt' = ""
          /\ d' = d
     ELSE IF fault = NoFault
     THEN /\ d' = ReadInto(d, Len(ReadSteps), fault)
          /\ result' = "ok"
          /\ failedAt' = ""
          /\ id' = id
     ELSE /\ fault.code \in ReadFaultsAt(fault.step)
          /\ (fault.step = "policy" => d["policy"] # "")
          /\ (fault.step = "website_endpoint" => rem["website"] # "")
          /\ (fault.code \in ToleratedAt(fault.step) => rem[fault.step] = "")
          /\ id' = id
          /\ IF ReadFails(fault)
             THEN /\ d' = ReadInto(d, ReadPos(fault.step) - 1, fault)
                  /\ result' = fault.code
                  /\ failedAt' = "Read"
             ELSE /\ d' = ReadInto(d, Len(ReadSteps), fault)
                  /\ result' = "ok"
                  /\ failedAt' = ""
  /\ readFault' = fault
  /\ pc' = "done"
  /\ UNCHANGED << op, isNew, state, force, remoteVars, calls, transients,
                  timedOut, deleteVars, config, createVars >>

\* a read pass on its own (refresh of the recorded state)
Refresh ==
  /\ pc = "idle"
  /\ id # << >>
  /\ result = "ok"
  /\ pc' = "Read"
  /\ op' = "read"
  /\ isNew' = FALSE
  /\ d' = state
  /\ calls' = << >>
  /\ transients' = 0
  /\ timedOut' = FALSE
  /\ result' = ""
  /\ failedAt' = ""
  /\ UNCHANGED << id, state, force, remoteVars, deleteVars, config, readFault, createVars >>

\* the operation returns to its caller, which records the result
Return ==
  /\ pc = "done"
  /\ pc' = "idle"
  /\ id' = IF op = "delete" /\ result = "ok" THEN << >> ELSE id
  /\ state' = IF id' = << >> THEN ZeroState
              ELSE IF result = "ok" THEN d ELSE state
  /\ d' = state'
  /\ isNew' = FALSE
  /\ calls' = << >>
  /\ transients' = 0
  /\ timedOut' = FALSE
  /\ failedAt' = ""
  /\ config' = ZeroState
  /\ readFault' = NoFault
  /\ region' = ""
  /\ metaRegion' = ""
  /\ req' = NoRequest
  /\ UNCHANGED << op, force, result, remoteVars, deleteVars >>

\* ---------------------------------------------------------------- Spec
Init ==
  /\ pc = "idle"
  /\ op = ""
  /\ id = << >>
  /\ isNew = FALSE
  /\ state = ZeroState
  /\ d = ZeroState
  /\ force = FALSE
  /\ exists = FALSE
  /\ rem = ZeroState
  /\ objects = {}
  /\ listed = NoListing
  /\ calls = << >>
  /\ transients = 0
  /\ timedOut = FALSE
  /\ result = ""
  /\ failedAt = ""
  /\ depth = 0
  /\ bucketDeletes = 0
  /\ wrote = FALSE
  /\ disturbed = FALSE
  /\ config = ZeroState
  /\ readFault = NoFault
  /\ region = ""
  /\ metaRegion = ""
  /\ req = NoRequest


\* ---------------------------------------------------------------- Delete
Min(a, b) == IF a <= b THEN a ELSE b

\* even entries are delete markers, odd ones object versions
IsDeleteMarker(o) == o % 2 = 0

\* resourceAwsS3BucketDelete is called by the caller
Delete ==
  /\ pc = "idle"
  /\ id # << >>
  /\ pc' = "DeleteBucket"
  /\ op' = "delete"
  /\ isNew' = FALSE
  /\ d' = state
  /\ calls' = << >>
  /\ transients' = 0
  /\ timedOut' = FALSE
  /\ result' = ""
  /\ failedAt' = ""
  /\ listed' = NoListing
  /\ depth' = 0
  /\ bucketDeletes' = 0
  /\ wrote' = FALSE
  /\ disturbed' = FALSE
  /\ UNCHANGED << id, state, force, remoteVars, config, readFault, createVars >>

\* a configuration that adds or removes object_lock_configuration of a
\* recorded bucket: object_lock_enabled is ForceNew, so the bucket is destroyed
\* (and created again by a later Create) instead of updated
Replace(cfg) ==
  /\ pc = "idle"
  /\ id # << >>
  /\ result = "ok"
  /\ ForcesNew(cfg, state)
  /\ pc' = "DeleteBucket"
  /\ op' = "delete"
  /\ isNew' = FALSE
  /\ d' = state
  /\ config' = cfg
  /\ readFault' = NoFault
  /\ calls' = << >>
  /\ transients' = 0
  /\ timedOut' = FALSE
  /\ result' = ""
  /\ failedAt' = ""
  /\ listed' = NoListing
  /\ depth' = 0
  /\ bucketDeletes' = 0
  /\ wrote' = FALSE
  /\ disturbed' = FALSE
  /\ UNCHANGED << id, state, force, remoteVars, createVars >>

\* the error value of a call the remote answered with r ("" for nil); a
\* DeleteObjects answer that reports errors for single keys is no error
ErrOf(r) == IF r \in { "ok", "partial" } THEN "" ELSE r

\* a delete that empties the bucket whatever force_destroy says
DeleteFlowAlwaysForced(step, err, forceDestroy) ==
  CASE step = "DeleteBucket" ->
         IF err = "NoSuchBucket" THEN "return nil"
         ELSE IF err = "BucketNotEmpty" /\ TRUE THEN "ListObjectVersions"
         ELSE IF err # "" THEN "return err"
         ELSE "return nil"
    [] step = "ListObjectVersions" ->
         IF err # "" THEN "return err" ELSE "DeleteObjects"
    [] OTHER ->
         IF err # "" THEN "return err" ELSE "DeleteBucket"

\* a forced delete that returns after the batch delete without calling itself
DeleteFlowNoRecursion(step, err, forceDestroy) ==
  CASE step = "DeleteBucket" ->
         IF err = "NoSuchBucket" THEN "return nil"
         ELSE IF err = "BucketNotEmpty" /\ forceDestroy THEN "ListObjectVersions"
         ELSE IF err # "" THEN "return err"
         ELSE "return nil"
    [] step = "ListObjectVersions" ->
         IF err # "" THEN "return err" ELSE "DeleteObjects"
    [] OTHER ->
         IF err # "" THEN "return err" ELSE "return nil"

\* a delete that returns the NoSuchBucket error of DeleteBucket
DeleteFlowNotFoundIsError(step, err, forceDestroy) ==
  CASE step = "DeleteBucket" ->
         IF err = "NoSuchBucket" THEN "return err"
         ELSE IF err = "BucketNotEmpty" /\ forceDestroy THEN "ListObjectVersions"
         ELSE IF err # "" THEN "return err"
         ELSE "return nil"
    [] step = "ListObjectVersions" ->
         IF err # "" THEN "return err" ELSE "DeleteObjects"
    [] OTHER ->
         IF err # "" THEN "return err" ELSE "DeleteBucket"

\* a forced delete that goes on to the batch delete after a failed listing
DeleteFlowIgnoringListError(step, err, forceDestroy) ==
  CASE step = "DeleteBucket" ->
         IF err = "NoSuchBucket" THEN "return nil"
         ELSE IF err = "BucketNotEmpty" /\ forceDestroy THEN "ListObjectVersions"
         ELSE IF err # "" THEN "return err"
         ELSE "return nil"
    [] step = "ListObjectVersions" ->
         IF err # "" THEN "DeleteObjects" ELSE "DeleteObjects"
    [] OTHER ->
         IF err # "" THEN "return err" ELSE "DeleteBucket"

\* the control flow of resourceAwsS3BucketDelete: what follows the call
\* `step` that returned err: the next call, "return nil" or "return err"
DeleteFlow(step, err, forceDestroy) ==
  CASE step = "DeleteBucket" ->
         IF err = "NoSuchBucket" THEN "return nil"
         ELSE IF err = "BucketNotEmpty" /\ forceDestroy THEN "ListObjectVersions"
         ELSE IF err # "" THEN "return err"
         ELSE "return nil"
    [] step = "ListObjectVersions" ->
         IF err # "" THEN "return err" ELSE "DeleteObjects"
    [] OTHER ->
         IF err # "" THEN "return err" ELSE "DeleteBucket"

\* the delete takes the step DeleteFlow names after `step` answered r
DeleteGoto(step, r) ==
  LET n == DeleteFlow(step, ErrOf(r), force)
  IN CASE n = "return nil" ->
            /\ pc' = "done"
            /\ result' = "ok"
            /\ failedAt' = ""
       [] n = "return err" ->
            /\ pc' = "done"
            /\ result' = ErrOf(r)
            /\ failedAt' = step
       [] OTHER ->
            /\ pc' = n
            /\ UNCHANGED << result, failedAt >>

\* the remote's possible answers to DeleteBucket
DeleteBucketResponses ==
  IF ~exists THEN { "NoSuchBucket" }
  ELSE IF objects # {} THEN { "BucketNotEmpty", "AccessDenied" }
  ELSE { "ok", "AccessDenied" }

\* the DeleteBucket call that opens every level of resourceAwsS3BucketDelete
DeleteBucket(r) ==
  /\ pc = "DeleteBucket"
  /\ r \in DeleteBucketResponses
  /\ calls' = << Logged("DeleteBucket", "", "", r) >>
  /\ disturbed' = FALSE
  /\ IF r = "ok"
     THEN /\ exists' = FALSE
          /\ rem' = ZeroState
          /\ bucketDeletes' = bucketDeletes + 1
     ELSE UNCHANGED << exists, rem, bucketDeletes >>
  /\ DeleteGoto("DeleteBucket", r)
  /\ UNCHANGED << op, resourceVars, objects, listed, transients, timedOut,
                  depth, wrote, config, readFault, createVars >>

\* the pages ListObjectVersions may answer with
Pages ==
  { p \in SUBSET objects : Cardinality(p) = Min(Cardinality(objects), MaxKeys) }

\* ListObjectVersions of a forced delete
ListObjectVersions(r, page) ==
  /\ pc = "ListObjectVersions"
  /\ r \in (IF exists THEN { "ok", "AccessDenied" } ELSE { "NoSuchBucket" })
  /\ page \in (IF r = "ok" THEN Pages ELSE { {} })
  /\ calls' = Append(calls, Logged("ListObjectVersions", "", "", r))
  /\ listed' = [DeleteMarkers |-> { o \in page : IsDeleteMarker(o) },
                Versions |-> { o \in page : ~IsDeleteMarker(o) }]
  /\ DeleteGoto("ListObjectVersions", r)
  /\ UNCHANGED << op, resourceVars, remoteVars, transients, timedOut, depth,
                  bucketDeletes, wrote, disturbed, config, readFault, createVars >>

\* a batch that leaves the delete markers out
ObjectsToDeleteVersionsOnly(resp) == resp.Versions

\* a batch that leaves the object versions out
ObjectsToDeleteMarkersOnly(resp) == resp.DeleteMarkers

\* the object identifiers the batch delete is given
ObjectsToDelete(resp) == resp.DeleteMarkers \cup resp.Versions

\* the remote's possible answers to DeleteObjects
DeleteObjectsResponses ==
  IF ~exists THEN { "NoSuchBucket" }
  ELSE { "ok", "partial", "AccessDenied" }

\* DeleteObjects of a forced delete; after it the delete calls itself
DeleteObjects(r, removed) ==
  /\ pc = "DeleteObjects"
  /\ LET batch == ObjectsToDelete(listed)
     IN /\ r \in DeleteObjectsResponses
        /\ calls' = Append(calls, Logged("DeleteObjects", "", batch, r))
        /\ CASE r = "ok" -> removed = batch
             [] r = "partial" -> removed \subseteq batch /\ removed # batch
             [] OTHER -> removed = {}
  /\ objects' = objects \ removed
  /\ IF r = "partial"
     THEN wrote' = TRUE /\ disturbed' = TRUE
     ELSE UNCHANGED << wrote, disturbed >>
  /\ DeleteGoto("DeleteObjects", r)
  /\ depth' = IF pc' = "DeleteBucket" THEN Min(depth + 1, MaxDepth) ELSE depth
  /\ UNCHANGED << op, resourceVars, exists, rem, listed, transients, timedOut,
                  bucketDeletes, config, readFault, createVars >>

\* another client puts an object or a delete marker into the bucket
Writer(o) ==
  /\ exists
  /\ o \in Objects \ objects
  /\ objects' = objects \cup {o}
  /\ IF op = "delete" /\ pc \notin { "idle", "done" }
     THEN wrote' = TRUE /\ disturbed' = TRUE
     ELSE UNCHANGED << wrote, disturbed >>
  /\ UNCHANGED << pc, op, resourceVars, exists, rem, listed, calls, transients,
                  timedOut, result, failedAt, depth, bucketDeletes, config, readFault,
                  createVars >>

\* the bucket is removed out of band
ExternalRemove ==
  /\ exists
  /\ exists' = FALSE
  /\ objects' = {}
  /\ rem' = ZeroState
  /\ UNCHANGED << pc, op, resourceVars, calls, transients, timedOut, result,
                  failedAt, deleteVars, config, readFault, createVars >>

\* every error code a read step may be answered, and "" for none
ReadCodes ==
  UNION { ReadFaultsAt(ReadSteps[i]) : i \in 1..Len(ReadSteps) } \cup { "" }

\* the read passes followed with every operation: one without error, one
\* that fails halfway and one whose policy read fails
SampleFaults ==
  { NoFault,
    [step |-> "logging", code |-> "AccessDenied"],
    [step |-> "policy", code |-> "AccessDenied"] }

\* the create, update, read and replace operations of the resource
Next ==
  \/ \E cfg \in Configs, b \in CreateNames, cr \in ConfiguredRegions,
          pr \in ProviderRegions : Create(cfg, b, cr, pr)
  \/ ValidateBucketName
  \/ \E r \in AllTransient \cup AllPermanent \cup {"ok"}, e \in BOOLEAN : CreateBucket(r, e)
  \/ \E cfg \in Configs : Update(cfg)
  \/ \E cfg \in Configs : Replace(cfg)
  \/ \E r \in { "ok", "AccessDenied" } : DeleteBucket(r)
  \/ \E r \in AllTransient \cup AllPermanent \cup {"ok"}, e \in BOOLEAN : Sync(r, e)
  \/ \E fault \in SampleFaults : Read(fault)
  \/ Refresh
  \/ Return

Spec == Init /\ [][Next]_vars

\* a bucket created from the empty configuration, recorded and in sync
InitDelete ==
  /\ pc = "idle"
  /\ op = "create"
  /\ id = BucketName
  /\ isNew = FALSE
  /\ exists = TRUE
  /\ rem = CreatedRemote(ConfigOf({}, ""))
  /\ state = ReadInto(ConfigOf({}, ""), Len(ReadSteps), NoFault)
  /\ d = state
  /\ force \in BOOLEAN
  /\ objects = {}
  /\ listed = NoListing
  /\ calls = << >>
  /\ transients = 0
  /\ timedOut = FALSE
  /\ result = "ok"
  /\ failedAt = ""
  /\ depth = 0
  /\ bucketDeletes = 0
  /\ wrote = FALSE
  /\ disturbed = FALSE
  /\ config = ZeroState
  /\ readFault = NoFault
  /\ region = ""
  /\ metaRegion = ""
  /\ req = NoRequest

\* the steps of a running delete; each is a blocking call that returns
DeleteProgress ==
  \/ \E r \in { "ok", "NoSuchBucket", "BucketNotEmpty", "AccessDenied" } : DeleteBucket(r)
  \/ \E r \in { "ok", "NoSuchBucket", "AccessDenied" }, p \in SUBSET Objects :
       ListObjectVersions(r, p)
  \/ \E r \in { "ok", "partial", "NoSuchBucket", "AccessDenied" }, p \in SUBSET Objects :
       DeleteObjects(r, p)
  \/ Return

NextDelete ==
  \/ Delete
  \/ \E r \in { "ok", "NoSuchBucket", "BucketNotEmpty", "AccessDenied" } : DeleteBucket(r)
  \/ \E r \in { "ok", "NoSuchBucket", "AccessDenied" }, p \in SUBSET Objects :
       ListObjectVersions(r, p)
  \/ \E r \in { "ok", "partial", "NoSuchBucket", "AccessDenied" }, p \in SUBSET Objects :
       DeleteObjects(r, p)
  \/ \E o \in Objects : Writer(o)
  \/ ExternalRemove
  \/ Return

SpecDelete == InitDelete /\ [][NextDelete]_vars /\ WF_vars(DeleteProgress)

\* ---------------------------------------------------------------- SpecName
\* the characters short sample names are made of: one of each class and one
\* outside every class
SampleChars == { "a", "A", "1", "-", ".", "_", "!" }

\* every name over SampleChars of length up to n
NamesUpTo(n) == UNION { [1..k -> SampleChars] : k \in 0..n }

\* the name of length n that repeats pattern
Repeat(pattern, n) ==
  [i \in 1..n |-> pattern[((i - 1) % Len(pattern)) + 1]]

\* names around the length limits
LongNames ==
  { Repeat(p, n) :
      p \in { << "a" >>, << "a", "_" >>, << "a", "." >>, << "A", "1" >>,
             << "a", "!" >> },
      n \in { 62, 63, 64, 200, 254, 255, 256 } }

\* groups of digits and letters that dotted names are made of
SampleGroups ==
  { << "1" >>, << "1", "9", "2" >>, << "1", "6", "8" >>, << "1", "2", "3", "4" >>,
    << "a" >> }

\* names of three, four and five dot-separated groups
DottedNames ==
  { g1 \o << "." >> \o g2 \o << "." >> \o g3 \o << "." >> \o g4 :
      g1 \in SampleGroups, g2 \in SampleGroups, g3 \in SampleGroups,
      g4 \in SampleGroups }
    \cup { g1 \o << "." >> \o g2 \o << "." >> \o g3 :
             g1 \in SampleGroups, g2 \in SampleGroups, g3 \in SampleGroups }
    \cup { << "1", ".", "1", ".", "1", ".", "1", ".", "1" >> }

\* the names validateS3BucketName is applied to
NameInputs ==
  NamesUpTo(MaxNameLen) \cup LongNames \cup DottedNames \cup { << "a", "b" >> }

\* Create has built its request for some name and region and is about to
\* validate the name
InitName ==
  /\ pc = "validateS3BucketName"
  /\ op = "create"
  /\ id = << >>
  /\ isNew = TRUE
  /\ state = ZeroState
  /\ config = ConfigOf({}, "")
  /\ readFault = NoFault
  /\ d = Merge(ConfigOf({}, ""), ZeroState)
  /\ force = FALSE
  /\ exists = FALSE
  /\ rem = ZeroState
  /\ objects = {}
  /\ listed = NoListing
  /\ calls = << >>
  /\ transients = 0
  /\ timedOut = FALSE
  /\ result = ""
  /\ failedAt = ""
  /\ depth = 0
  /\ bucketDeletes = 0
  /\ wrote = FALSE
  /\ disturbed = FALSE
  /\ region \in ConfiguredRegions
  /\ metaRegion \in ProviderRegions
  /\ \E b \in NameInputs :
       req = CreateBucketInput(b, "private", AwsRegion(region, metaRegion))

NextName ==
  \/ ValidateBucketName
  \/ Return

SpecName == InitName /\ [][NextName]_vars

\* ---------------------------------------------------------------- SpecRead
\* the configurations a bucket can be created from without an error
SyncedConfigs ==
  { cfg \in Configs :
      LocalError("replication_configuration", Merge(cfg, ZeroState)) = "" }

\* the remote configuration of a bucket created from dd, every put accepted
SyncedRemote(dd) ==
  [f \in Facets |->
     IF f = "acl" \/ dd[f] = "" THEN dd[f] ELSE Stored(f, dd[f], CallOf(f, dd[f]))]

\* a bucket created from some configuration, recorded and in sync
InitRead ==
  /\ pc = "idle"
  /\ op = "create"
  /\ id = BucketName
  /\ isNew = FALSE
  /\ exists = TRUE
  /\ \E cfg \in SyncedConfigs :
       /\ rem = SyncedRemote(Merge(cfg, ZeroState))
       /\ state = ReadInto(Merge(cfg, ZeroState), Len(ReadSteps), NoFault)
  /\ d = state
  /\ force = FALSE
  /\ objects = {}
  /\ listed = NoListing
  /\ calls = << >>
  /\ transients = 0
  /\ timedOut = FALSE
  /\ result = "ok"
  /\ failedAt = ""
  /\ depth = 0
  /\ bucketDeletes = 0
  /\ wrote = FALSE
  /\ disturbed = FALSE
  /\ config = ZeroState
  /\ readFault = NoFault
  /\ region = ""
  /\ metaRegion = ""
  /\ req = NoRequest

\* read passes of a recorded bucket, the remote answering any error at any
\* step
NextRead ==
  \/ Refresh
  \/ \E s \in ReadFailSteps \cup { "policy", "none" }, c \in ReadCodes :
       Read([step |-> s, code |-> c])
  \/ Return

SpecRead == InitRead /\ [][NextRead]_vars

\* ---------------------------------------------------------------- SpecWebsite
\* strings are sequences of characters
\* strings.Index(s, c) for a character c, counted from 1; 0 when c is not in s
IndexOf(s, c) ==
  IF \E i \in 1..Len(s) : s[i] = c
  THEN CHOOSE i \in 1..Len(s) : s[i] = c /\ \A j \in 1..(i - 1) : s[j] # c
  ELSE 0

\* s up to its first c, all of s when c is not in s
Before(s, c) == IF IndexOf(s, c) = 0 THEN s ELSE SubSeq(s, 1, IndexOf(s, c) - 1)

\* s after its first c, empty when c is not in s
After(s, c) ==
  IF IndexOf(s, c) = 0 THEN << >> ELSE SubSeq(s, IndexOf(s, c) + 1, Len(s))

\* s from its first c on, empty when c is not in s
From(s, c) ==
  IF IndexOf(s, c) = 0 THEN << >> ELSE SubSeq(s, IndexOf(s, c), Len(s))

\* strings.HasPrefix(s, p)
HasPrefix(s, p) == Len(s) >= Len(p) /\ SubSeq(s, 1, Len(p)) = p

\* strings.Count(s, c) for a character c
Count(s, c) == Cardinality({ i \in 1..Len(s) : s[i] = c })

\* url.getScheme: the scheme ends at the first ":", provided everything
\* before it is a letter or, after the first character, one of 0-9 + - .
getScheme(rawurl) ==
  LET stops == { i \in 1..Len(rawurl) :
                   /\ rawurl[i] \notin Lower \cup Upper
                   /\ ~(i > 1 /\ rawurl[i] \in Digits \cup { "+", "-", "." }) }
      k == CHOOSE i \in stops : \A j \in stops : i <= j
  IN IF stops = {} \/ rawurl[k] # ":"
     THEN [err |-> FALSE, scheme |-> << >>, rest |-> rawurl]
     ELSE IF k = 1
     THEN [err |-> TRUE, scheme |-> << >>, rest |-> << >>]
     ELSE [err |-> FALSE, scheme |-> SubSeq(rawurl, 1, k - 1),
           rest |-> SubSeq(rawurl, k + 1, Len(rawurl))]

\* a URL that url.Parse could not parse
ParseError ==
  [err |-> TRUE, Scheme |-> << >>, Opaque |-> << >>, Host |-> << >>,
   Path |-> << >>, RawQuery |-> << >>]

\* url.Parse, for URLs of letters, digits and : / ? # . without user
\* information: the fragment is cut off, then the scheme, then the query; what
\* is left is opaque (scheme, no leading slash), or an authority after "//"
\* followed by the path, or a path alone
urlParse(rawurl) ==
  LET u == Before(rawurl, "#")
      s == getScheme(u)
      forceQuery == /\ Len(s.rest) >= 1
                    /\ s.rest[Len(s.rest)] = "?"
                    /\ Count(s.rest, "?") = 1
      rest == IF forceQuery THEN SubSeq(s.rest, 1, Len(s.rest) - 1)
              ELSE Before(s.rest, "?")
      query == IF forceQuery THEN << >> ELSE After(s.rest, "?")
      hasAuthority == /\ HasPrefix(rest, << "/", "/" >>)
                      /\ (s.scheme # << >> \/ ~HasPrefix(rest, << "/", "/", "/" >>))
      authority == SubSeq(rest, 3, Len(rest))
  IN IF s.err THEN ParseError
     ELSE IF ~HasPrefix(rest, << "/" >>) /\ s.scheme # << >>
     THEN [err |-> FALSE, Scheme |-> s.scheme, Opaque |-> rest, Host |-> << >>,
           Path |-> << >>, RawQuery |-> query]
     ELSE IF ~HasPrefix(rest, << "/" >>) /\ IndexOf(Before(rest, "/"), ":") # 0
     THEN ParseError
     ELSE IF hasAuthority
     THEN [err |-> FALSE, Scheme |-> s.scheme, Opaque |-> << >>,
           Host |-> Before(authority, "/"), Path |-> From(authority, "/"),
           RawQuery |-> query]
     ELSE [err |-> FALSE, Scheme |-> s.scheme, Opaque |-> << >>, Host |-> << >>,
           Path |-> rest, RawQuery |-> query]

\* the characters url.URL.String escapes in a host, with their escapes
HostEscapes ==
  [c \in { "/", "?", "#" } |->
     CASE c = "/" -> << "%", "2", "F" >>
       [] c = "?" -> << "%", "3", "F" >>
       [] OTHER -> << "%", "2", "3" >>]

\* the characters url.URL.EscapedPath escapes in a path, with their escapes
PathEscapes ==
  [c \in { "?", "#" } |->
     IF c = "?" THEN << "%", "3", "F" >> ELSE << "%", "2", "3" >>]

RECURSIVE Escape(_, _)
\* url.escape: every character of s in the domain of code replaced by its escape
Escape(s, code) ==
  IF s = << >> THEN << >>
  ELSE (IF Head(s) \in DOMAIN code THEN code[Head(s)] ELSE << Head(s) >>)
         \o Escape(Tail(s), code)

\* (&url.URL{Scheme, Host, Path, RawQuery}).String()
urlString(u) ==
  LET scheme == IF u.Scheme # << >> THEN u.Scheme \o << ":" >> ELSE << >>
      slashes == IF /\ u.Scheme # << >> \/ u.Host # << >>
                    /\ u.Host # << >> \/ u.Path # << >>
                 THEN << "/", "/" >> ELSE << >>
      host == Escape(u.Host, HostEscapes)
      path == Escape(u.Path, PathEscapes)
      slash == IF path # << >> /\ path[1] # "/" /\ u.Host # << >>
               THEN << "/" >> ELSE << >>
      dot == IF /\ scheme \o slashes \o host \o slash = << >>
                /\ IndexOf(Before(path, "/"), ":") # 0
             THEN << ".", "/" >> ELSE << >>
      query == IF u.RawQuery # << >> THEN << "?" >> \o u.RawQuery ELSE << >>
  IN scheme \o slashes \o host \o slash \o dot \o path \o query

\* a website block: the attributes of the schema's website element, "" (the
\* empty sequence) for an attribute that is not set
Website(index, error, redirect) ==
  [index_document |-> index, error_document |-> error,
   redirect_all_requests_to |-> redirect]

\* a check that is content with an error document
WebsitePutErrorUnlessAnyDocument(website) ==
  IF /\ website.index_document = << >>
     /\ website.error_document = << >>
     /\ website.redirect_all_requests_to = << >>
  THEN "Must specify either index_document or redirect_all_requests_to."
  ELSE ""

\* the error resourceAwsS3BucketWebsitePut returns before any call, "" if none
WebsitePutError(website) ==
  IF website.index_document = << >> /\ website.redirect_all_requests_to = << >>
  THEN "Must specify either index_document or redirect_all_requests_to."
  ELSE ""

\* the s3.RedirectAllRequestsTo built from the attribute; a pointer field is
\* the set of what it points to, empty for nil
RedirectAllRequestsTo(redirectAllRequestsTo) ==
  LET redirect == urlParse(redirectAllRequestsTo)
  IN IF ~redirect.err /\ redirect.Scheme # << >>
     THEN [HostName |->
             redirect.Host \o redirect.Path
               \o (IF redirect.RawQuery # << >>
                   THEN << "?" >> \o redirect.RawQuery ELSE << >>),
           Protocol |-> { redirect.Scheme }]
     ELSE [HostName |-> redirectAllRequestsTo, Protocol |-> {}]

\* the s3.WebsiteConfiguration resourceAwsS3BucketWebsitePut builds
WebsiteConfiguration(website) ==
  [IndexDocument |->
     IF website.index_document # << >> THEN { website.index_document } ELSE {},
   ErrorDocument |->
     IF website.error_document # << >> THEN { website.error_document } ELSE {},
   RedirectAllRequestsTo |->
     IF website.redirect_all_requests_to # << >>
     THEN { RedirectAllRequestsTo(website.redirect_all_requests_to) }
     ELSE {}]

\* the attribute the read pass sets from the redirect v of a GetBucketWebsite
\* answer
ReadRedirect(v) ==
  IF v.Protocol = {} THEN v.HostName
  ELSE LET parsedHostName == urlParse(v.HostName)
           protocol == CHOOSE p \in v.Protocol : TRUE
       IN urlString(
            [Scheme |-> protocol,
             Host |-> IF parsedHostName.err THEN v.HostName
                      ELSE parsedHostName.Host,
             Path |-> IF parsedHostName.err THEN << >> ELSE parsedHostName.Path,
             RawQuery |-> IF parsedHostName.err THEN << >>
                          ELSE parsedHostName.RawQuery])

\* one of the at most one elements of a pointer field, "" for nil
Deref(p) == IF p = {} THEN << >> ELSE CHOOSE x \in p : TRUE

\* the website block the read pass sets from a GetBucketWebsite answer
ReadWebsite(ws) ==
  Website(Deref(ws.IndexDocument), Deref(ws.ErrorDocument),
          IF ws.RedirectAllRequestsTo = {} THEN << >>
          ELSE ReadRedirect(CHOOSE v \in ws.RedirectAllRequestsTo : TRUE))

\* the parts redirect targets are assembled from
RedirectSchemes == { << >>, << "h", ":", "/", "/" >>, << "h", ":" >> }
RedirectHosts == { << "e" >>, << "e", ".", "c" >>, << "e", ":", "8" >>, << "1" >>,
                   << "1", ":", "8" >> }
RedirectPaths == { << >>, << "/" >>, << "/", "p" >> }
RedirectQueries == { << >>, << "?" >>, << "?", "q" >> }
RedirectFragments == { << >>, << "#", "f" >> }

\* the characters short redirect targets are made of
RedirectChars == { "h", "1", ":", "/", "?", "#" }

\* the redirect targets the website synchronizer is applied to
RedirectInputs ==
  { s \o h \o p \o q \o f :
      s \in RedirectSchemes, h \in RedirectHosts, p \in RedirectPaths,
      q \in RedirectQueries, f \in RedirectFragments }
    \cup UNION { [1..k -> RedirectChars] : k \in 1..MaxUrlLen }

\* the website blocks the schema admits: a redirect target excludes the other
\* attributes (ConflictsWith)
WebsiteInputs ==
  { Website(i, e, << >>) :
      i \in { << >>, << "i" >> }, e \in { << >>, << "e" >> } }
    \cup { Website(<< >>, << >>, r) : r \in RedirectInputs }

\* the update pass has reached the website synchronizer with a website block
InitWebsite ==
  /\ pc = "website"
  /\ op = "update"
  /\ id = BucketName
  /\ isNew = FALSE
  /\ state = ZeroState
  /\ \E w \in WebsiteInputs :
       /\ config = [ZeroState EXCEPT !["website"] = w]
       /\ d = [ZeroState EXCEPT !["website"] = w]
  /\ readFault = NoFault
  /\ force = FALSE
  /\ exists = TRUE
  /\ rem = ZeroState
  /\ objects = {}
  /\ listed = NoListing
  /\ calls = << >>
  /\ transients = 0
  /\ timedOut = FALSE
  /\ result = ""
  /\ failedAt = ""
  /\ depth = 0
  /\ bucketDeletes = 0
  /\ wrote = FALSE
  /\ disturbed = FALSE
  /\ region = ""
  /\ metaRegion = ""
  /\ req = NoRequest

\* resourceAwsS3BucketWebsitePut, the remote accepting the call
resourceAwsS3BucketWebsitePut ==
  /\ pc = "website"
  /\ LET website == d["website"]
         websiteConfiguration == WebsiteConfiguration(website)
     IN IF WebsitePutError(website) # ""
        THEN /\ pc' = "done"
             /\ result' = WebsitePutError(website)
             /\ failedAt' = "website"
             /\ UNCHANGED << calls, rem >>
        ELSE /\ pc' = "GetBucketWebsite"
             /\ calls' = Append(calls, Logged("PutBucketWebsite", "website",
                                              websiteConfiguration, "ok"))
             /\ rem' = [rem EXCEPT !["website"] = websiteConfiguration]
             /\ UNCHANGED << result, failedAt >>
  /\ UNCHANGED << op, resourceVars, exists, objects, transients, timedOut,
                  deleteVars, config, readFault, createVars >>

\* the website part of resourceAwsS3BucketRead, the remote answering with the
\* configuration it stores
ReadBucketWebsite ==
  /\ pc = "GetBucketWebsite"
  /\ d' = [d EXCEPT !["website"] = ReadWebsite(rem["website"])]
  /\ pc' = "done"
  /\ result' = "ok"
  /\ UNCHANGED << op, id, isNew, state, force, remoteVars, calls, transients,
                  timedOut, failedAt, deleteVars, config, readFault, createVars >>

NextWebsite ==
  \/ resourceAwsS3BucketWebsitePut
  \/ ReadBucketWebsite

SpecWebsite == InitWebsite /\ [][NextWebsite]_vars

\* ---------------------------------------------------------------- SpecLifecycle
\* a tag map is a function from keys to values; a list of s3.Tag is a sequence
\* of [Key, Value]
\* tagsFromMapS3: one s3.Tag per entry of the map, in the order the map is
\* iterated in (order lists the keys)
tagsFromMapS3(tags, order) ==
  [i \in 1..Len(order) |-> [Key |-> order[i], Value |-> tags[order[i]]]]

\* tagsToMapS3: the map of the tags of a list
tagsToMapS3(ts) ==
  [k \in { ts[i].Key : i \in 1..Len(ts) } |->
     LET last == CHOOSE i \in 1..Len(ts) :
                   ts[i].Key = k /\ \A j \in (i + 1)..Len(ts) : ts[j].Key # k
     IN ts[last].Value]

\* the orders a map can be iterated in
KeyOrders(tags) ==
  { order \in [1..Cardinality(DOMAIN tags) -> DOMAIN tags] :
      \A i, j \in DOMAIN order : order[i] = order[j] => i = j }

\* the map without entries
NoTags == << >>

\* a filter that never carries tags
LifecycleRuleFilterPrefixOnly(r, order) ==
  [And |-> {}, Prefix |-> { r.prefix }, Tag |-> {}]

\* the s3.LifecycleRuleFilter resourceAwsS3BucketLifecycleUpdate builds for
\* rule r; a pointer field is the set of what it points to, empty for nil
LifecycleRuleFilter(r, order) ==
  IF Cardinality(DOMAIN r.tags) > 0
  THEN [And |-> { [Prefix |-> { r.prefix },
                   Tags |-> tagsFromMapS3(r.tags, order)] },
        Prefix |-> {}, Tag |-> {}]
  ELSE [And |-> {}, Prefix |-> { r.prefix }, Tag |-> {}]

\* the prefix and tags the read pass sets from the filter of a stored rule
ReadLifecycleFilter(filter) ==
  IF filter.And # {}
  THEN LET and == CHOOSE a \in filter.And : TRUE
       IN [prefix |-> IF and.Prefix # {} /\ and.Prefix # { "" }
                      THEN CHOOSE p \in and.Prefix : TRUE ELSE "",
           tags |-> IF Len(and.Tags) > 0 THEN tagsToMapS3(and.Tags) ELSE NoTags]
  ELSE [prefix |-> IF filter.Prefix # {} /\ filter.Prefix # { "" }
                   THEN CHOOSE p \in filter.Prefix : TRUE ELSE "",
        tags |-> IF filter.Tag # {}
                 THEN tagsToMapS3(<< CHOOSE t \in filter.Tag : TRUE >>)
                 ELSE NoTags]

\* the prefixes, tag keys and tag values of the sample rules
RulePrefixes == { "", "logs/", "tmp/" }
TagKeys == { "k1", "k2", "k3" }
TagValues == { "v1", "v2" }

\* the tag maps with up to MaxTags entries
TagMaps ==
  UNION { [K -> TagValues] : K \in { S \in SUBSET TagKeys : Cardinality(S) <= MaxTags } }

\* the lifecycle rules the synchronizer is applied to
RuleInputs == { [prefix |-> p, tags |-> t] : p \in RulePrefixes, t \in TagMaps }

\* the update pass has reached the lifecycle synchronizer with one rule
InitLifecycle ==
  /\ pc = "lifecycle_rule"
  /\ op = "update"
  /\ id = BucketName
  /\ isNew = FALSE
  /\ state = ZeroState
  /\ \E r \in RuleInputs :
       /\ config = [ZeroState EXCEPT !["lifecycle_rule"] = r]
       /\ d = [ZeroState EXCEPT !["lifecycle_rule"] = r]
  /\ readFault = NoFault
  /\ force = FALSE
  /\ exists = TRUE
  /\ rem = ZeroState
  /\ objects = {}
  /\ listed = NoListing
  /\ calls = << >>
  /\ transients = 0
  /\ timedOut = FALSE
  /\ result = ""
  /\ failedAt = ""
  /\ depth = 0
  /\ bucketDeletes = 0
  /\ wrote = FALSE
  /\ disturbed = FALSE
  /\ region = ""
  /\ metaRegion = ""
  /\ req = NoRequest

\* resourceAwsS3BucketLifecycleUpdate for one rule, the remote accepting the
\* call
resourceAwsS3BucketLifecycleUpdate ==
  /\ pc = "lifecycle_rule"
  /\ \E order \in KeyOrders(d["lifecycle_rule"].tags) :
       LET filter == LifecycleRuleFilter(d["lifecycle_rule"], order)
       IN /\ calls' = Append(calls, Logged("PutBucketLifecycleConfiguration",
                                           "lifecycle_rule", filter, "ok"))
          /\ rem' = [rem EXCEPT !["lifecycle_rule"] = filter]
  /\ pc' = "GetBucketLifecycleConfiguration"
  /\ UNCHANGED << op, resourceVars, exists, objects, transients, timedOut,
                  result, failedAt, deleteVars, config, readFault, createVars >>

\* the lifecycle part of resourceAwsS3BucketRead, the remote answering with the
\* rule it stores
ReadBucketLifecycle ==
  /\ pc = "GetBucketLifecycleConfiguration"
  /\ d' = [d EXCEPT !["lifecycle_rule"] = ReadLifecycleFilter(rem["lifecycle_rule"])]
  /\ pc' = "done"
  /\ result' = "ok"
  /\ UNCHANGED << op, id, isNew, state, force, remoteVars, calls, transients,
                  timedOut, failedAt, deleteVars, config, readFault, createVars >>

NextLifecycle ==
  \/ resourceAwsS3BucketLifecycleUpdate
  \/ ReadBucketLifecycle

SpecLifecycle == InitLifecycle /\ [][NextLifecycle]_vars

\* ---------------------------------------------------------------- SpecExpiration
\* the dates time.Parse(time.RFC3339, val + "T00:00:00Z") accepts, of the
\* sample
ValidDates == { "2019-01-01", "2020-06-30" }

\* an expiration block as d.Get returns it: every attribute of the schema is
\* present, with its zero value when the configuration does not set it
Expiration(date, days, marker) ==
  [date |-> date, days |-> days, expired_object_delete_marker |-> marker]

\* an expiration that carries date and days side by side
LifecycleExpirationEveryField(e) ==
  [err |-> e.date # "" /\ e.date \notin ValidDates,
   Date |-> IF e.date # "" THEN { e.date } ELSE {},
   Days |-> IF e.days > 0 THEN { e.days } ELSE {},
   ExpiredObjectDeleteMarker |->
     IF e.date = "" /\ e.days <= 0 THEN { e.expired_object_delete_marker }
     ELSE {}]

\* the s3.LifecycleExpiration resourceAwsS3BucketLifecycleUpdate builds from
\* the block e, or the error of the date that does not parse; a pointer field
\* is the set of what it points to, empty for nil
LifecycleExpiration(e) ==
  IF e.date # ""
  THEN [err |-> e.date \notin ValidDates,
        Date |-> IF e.date \in ValidDates THEN { e.date } ELSE {},
        Days |-> {}, ExpiredObjectDeleteMarker |-> {}]
  ELSE IF e.days > 0
  THEN [err |-> FALSE, Date |-> {}, Days |-> { e.days },
        ExpiredObjectDeleteMarker |-> {}]
  ELSE [err |-> FALSE, Date |-> {}, Days |-> {},
        ExpiredObjectDeleteMarker |-> { e.expired_object_delete_marker }]

\* the expiration blocks of the sample; the schema admits at most one per rule
ExpirationInputs ==
  { Expiration(date, days, marker) :
      date \in ValidDates \cup { "" }, days \in 0..MaxDays, marker \in BOOLEAN }

\* the update pass has reached the lifecycle synchronizer with one rule that
\* has an expiration block or none
InitExpiration ==
  /\ pc = "lifecycle_rule"
  /\ op = "update"
  /\ id = BucketName
  /\ isNew = FALSE
  /\ state = ZeroState
  /\ \E p \in RulePrefixes, x \in { {} } \cup { { e } : e \in ExpirationInputs } :
       /\ config = [ZeroState EXCEPT !["lifecycle_rule"] = [prefix |-> p, expiration |-> x]]
       /\ d = [ZeroState EXCEPT !["lifecycle_rule"] = [prefix |-> p, expiration |-> x]]
  /\ readFault = NoFault
  /\ force = FALSE
  /\ exists = TRUE
  /\ rem = ZeroState
  /\ objects = {}
  /\ listed = NoListing
  /\ calls = << >>
  /\ transients = 0
  /\ timedOut = FALSE
  /\ result = ""
  /\ failedAt = ""
  /\ depth = 0
  /\ bucketDeletes = 0
  /\ wrote = FALSE
  /\ disturbed = FALSE
  /\ region = ""
  /\ metaRegion = ""
  /\ req = NoRequest

\* resourceAwsS3BucketLifecycleUpdate for one rule with its expiration, the
\* remote accepting the call; the rule put is the set of its expirations (at
\* most one; none when rule.Expiration stays nil)
PutLifecycleExpiration ==
  /\ pc = "lifecycle_rule"
  /\ LET expiration == d["lifecycle_rule"].expiration
         built == { LifecycleExpiration(e) : e \in expiration }
     IN IF \E i \in built : i.err
        THEN /\ pc' = "done"
             /\ result' = "Error Parsing AWS S3 Bucket Lifecycle Expiration Date"
             /\ failedAt' = "lifecycle_rule"
             /\ UNCHANGED << calls, rem >>
        ELSE /\ pc' = "done"
             /\ result' = "ok"
             /\ failedAt' = ""
             /\ calls' = Append(calls, Logged("PutBucketLifecycleConfiguration",
                                              "lifecycle_rule", built, "ok"))
             /\ rem' = [rem EXCEPT !["lifecycle_rule"] = built]
  /\ UNCHANGED << op, resourceVars, exists, objects, transients, timedOut,
                  deleteVars, config, readFault, createVars >>

NextExpiration == PutLifecycleExpiration

SpecExpiration == InitExpiration /\ [][NextExpiration]_vars

\* ---------------------------------------------------------------- SpecReplication
\* a replication rule as d.Get returns it; filter is the list of its filter
\* blocks (at most one), each the set of its attribute map, empty for the nil
\* element an empty block is read as
Rule(status, prefix, priority, filter) ==
  [status |-> status, prefix |-> prefix, priority |-> priority,
   filter |-> filter]

\* the rule has a filter block that is not nil
HasFilter(rr) == Len(rr.filter) > 0 /\ rr.filter[1] # {}

\* a rule that keeps the top-level prefix next to the filter
ReplicationRuleKeepingPrefix(rr, order) ==
  IF HasFilter(rr)
  THEN LET filter == CHOOSE f \in rr.filter[1] : TRUE
       IN [Status |-> rr.status,
           Priority |-> { rr.priority },
           Filter |->
             { IF Cardinality(DOMAIN filter.tags) > 0
               THEN [Prefix |-> {},
                     And |-> { [Prefix |-> { filter.prefix },
                                Tags |-> tagsFromMapS3(filter.tags, order)] }]
               ELSE [Prefix |-> { filter.prefix }, And |-> {}] },
           DeleteMarkerReplication |-> { "Disabled" },
           Prefix |-> IF rr.prefix # "" THEN { rr.prefix } ELSE {}]
  ELSE [Status |-> rr.status, Priority |-> {}, Filter |-> {},
        DeleteMarkerReplication |-> {}, Prefix |-> { rr.prefix }]

\* the s3.ReplicationRule the replication synchronizer builds from rule rr; a
\* pointer field is the set of what it points to, empty for nil
ReplicationRule(rr, order) ==
  IF HasFilter(rr)
  THEN LET filter == CHOOSE f \in rr.filter[1] : TRUE
       IN [Status |-> rr.status,
           Priority |-> { rr.priority },
           Filter |->
             { IF Cardinality(DOMAIN filter.tags) > 0
               THEN [Prefix |-> {},
                     And |-> { [Prefix |-> { filter.prefix },
                                Tags |-> tagsFromMapS3(filter.tags, order)] }]
               ELSE [Prefix |-> { filter.prefix }, And |-> {}] },
           DeleteMarkerReplication |-> { "Disabled" },
           Prefix |-> {}]
  ELSE [Status |-> rr.status, Priority |-> {}, Filter |-> {},
        DeleteMarkerReplication |-> {}, Prefix |-> { rr.prefix }]

\* the tags of the rule's filter, none without a filter
FilterTags(rr) ==
  IF HasFilter(rr) THEN (CHOOSE f \in rr.filter[1] : TRUE).tags ELSE NoTags

\* the filter lists of the sample: no block, an empty block, and blocks with
\* a prefix and up to MaxTags tags over one key set each
FilterInputs ==
  { << >>, << {} >> }
    \cup { << { [prefix |-> p, tags |-> t] } >> :
             p \in { "", "logs/" },
             t \in { m \in TagMaps : \A k \in DOMAIN m : m[k] = "v1" } }

\* the replication rules the synchronizer is applied to
ReplicationRuleInputs ==
  { Rule(s, p, n, f) :
      s \in { "Enabled", "Disabled" }, p \in { "", "old/" }, n \in { 0, 1 },
      f \in FilterInputs }

\* the update pass has reached the replication synchronizer with one rule
InitReplication ==
  /\ pc = "replication_configuration"
  /\ op = "update"
  /\ id = BucketName
  /\ isNew = FALSE
  /\ state = ZeroState
  /\ \E rr \in ReplicationRuleInputs, v \in { "enabled", "disabled" } :
       /\ config = [ZeroState EXCEPT !["replication_configuration"] = rr,
                                     !["versioning"] = v]
       /\ d = [ZeroState EXCEPT !["replication_configuration"] = rr,
                                !["versioning"] = v]
  /\ readFault = NoFault
  /\ force = FALSE
  /\ exists = TRUE
  /\ rem = ZeroState
  /\ objects = {}
  /\ listed = NoListing
  /\ calls = << >>
  /\ transients = 0
  /\ timedOut = FALSE
  /\ result = ""
  /\ failedAt = ""
  /\ depth = 0
  /\ bucketDeletes = 0
  /\ wrote = FALSE
  /\ disturbed = FALSE
  /\ region = ""
  /\ metaRegion = ""
  /\ req = NoRequest

\* resourceAwsS3BucketReplicationConfigurationUpdate for a configuration of
\* one rule, the remote accepting the call
resourceAwsS3BucketReplicationConfigurationUpdate ==
  /\ pc = "replication_configuration"
  /\ pc' = "done"
  /\ IF d["versioning"] # "enabled"
     THEN /\ result' = "versioning must be enabled"
          /\ failedAt' = "replication_configuration"
          /\ UNCHANGED << calls, rem >>
     ELSE \E order \in KeyOrders(FilterTags(d["replication_configuration"])) :
            LET rcRule == ReplicationRule(d["replication_configuration"], order)
            IN /\ calls' = Append(calls, Logged("PutBucketReplication",
                                                "replication_configuration",
                                                rcRule, "ok"))
               /\ rem' = [rem EXCEPT !["replication_configuration"] = rcRule]
               /\ result' = "ok"
               /\ failedAt' = ""
  /\ UNCHANGED << op, resourceVars, exists, objects, transients, timedOut,
                  deleteVars, config, readFault, createVars >>

NextReplication == resourceAwsS3BucketReplicationConfigurationUpdate

SpecReplication == InitReplication /\ [][NextReplication]_vars

\* ---------------------------------------------------------------- SpecHash
\* the set hash functions write a digest input into a buffer and return
\* hashcode.String of it; the digest input is a sequence of characters
RECURSIVE Decimal(_)
\* fmt.Sprintf("%d", n) for n >= 0
Decimal(n) ==
  LET digit == << "0", "1", "2", "3", "4", "5", "6", "7", "8", "9" >>[(n % 10) + 1]
  IN IF n < 10 THEN << digit >> ELSE Decimal(n \div 10) \o << digit >>

\* fmt.Sprintf("%t", b)
FormatBool(b) ==
  IF b THEN << "t", "r", "u", "e" >> ELSE << "f", "a", "l", "s", "e" >>

\* the map m without the entries of the keys outside K
Restrict(m, K) == [k \in K \cap DOMAIN m |-> m[k]]

\* fmt.Sprintf("%s-", m[k]) for a key of the map, nothing for a missing key
WriteString(m, k) == IF k \in DOMAIN m THEN m[k] \o << "-" >> ELSE << >>

\* fmt.Sprintf("%d-", m[k]) for a key of the map, nothing for a missing key
WriteInt(m, k) == IF k \in DOMAIN m THEN Decimal(m[k]) \o << "-" >> ELSE << >>

\* fmt.Sprintf("%t-", m[k]) for a key of the map, nothing for a missing key
WriteBool(m, k) == IF k \in DOMAIN m THEN FormatBool(m[k]) \o << "-" >> ELSE << >>

\* expirationHash: the digest input it builds
expirationHash(m) ==
  WriteString(m, "date") \o WriteInt(m, "days")
    \o WriteBool(m, "expired_object_delete_marker")

\* transitionHash: the digest input it builds
transitionHash(m) ==
  WriteString(m, "date") \o WriteInt(m, "days") \o WriteString(m, "storage_class")

\* hashcode.String(owner + "-") for the one owner the schema admits, the
\* CRC-32 of "Destination-", in the decimal digits "%d" prints
OwnerDestinationHash == << "3", "1", "1", "7", "5", "4", "0", "5", "5", "2" >>

\* accessControlTranslationHash of the block t, as "%d" prints it
accessControlTranslationHash(t) ==
  IF "owner" \in DOMAIN t /\ t.owner = << "D" >> THEN OwnerDestinationHash
  ELSE Decimal(0)

\* destinationHash: the digest input it builds; the key it looks the account
\* up by is "account"
destinationHash(m) ==
  WriteString(m, "bucket") \o WriteString(m, "storage_class")
    \o WriteString(m, "replica_kms_key_id") \o WriteString(m, "account")
    \o (IF /\ "access_control_translation" \in DOMAIN m
           /\ Len(m["access_control_translation"]) > 0
           /\ m["access_control_translation"][1] # {}
        THEN accessControlTranslationHash(
               CHOOSE t \in m["access_control_translation"][1] : TRUE) \o << "-" >>
        ELSE << >>)

\* a date, as characters
SampleDate == << "2", "0", "1", "9", "-", "0", "1", "-", "0", "1" >>

\* the default value of an attribute of an expiration or transition block
DefaultOf(k) ==
  CASE k = "days" -> 0
    [] k = "expired_object_delete_marker" -> FALSE
    [] OTHER -> << >>

\* expiration maps: the complete ones d.Get returns and the partial ones the
\* read pass builds from the non-nil fields of the stored expiration
ExpirationMaps ==
  { Restrict([date |-> a, days |-> n, expired_object_delete_marker |-> b], K) :
      a \in { << >>, SampleDate }, n \in 0..MaxDays, b \in BOOLEAN,
      K \in SUBSET { "date", "days", "expired_object_delete_marker" } }

\* transition maps, complete and partial alike
TransitionMaps ==
  { Restrict([date |-> a, days |-> n, storage_class |-> c], K) :
      a \in { << >>, SampleDate }, n \in 0..MaxDays, c \in { << >>, << "G" >> },
      K \in SUBSET { "date", "days", "storage_class" } }

\* replication destinations as d.Get returns them; access_control_translation
\* is the list of its blocks, each the set of its attribute map
DestinationMaps ==
  { [bucket |-> b, storage_class |-> c, replica_kms_key_id |-> k,
     account_id |-> a, access_control_translation |-> t] :
      b \in { << "a" >>, << "a", "-", "G" >> },
      c \in { << >>, << "G" >> },
      k \in { << >>, << "k" >>, << "-", "k" >> },
      a \in { << >>, << "1" >>, << "2" >> },
      t \in { << >>, << { [owner |-> << "D" >>] } >> } }

\* a set hash function is about to be applied to a map
InitHash ==
  /\ \/ pc = "expirationHash" /\ \E m \in ExpirationMaps :
          d = [ZeroState EXCEPT !["lifecycle_rule"] = m]
     \/ pc = "transitionHash" /\ \E m \in TransitionMaps :
          d = [ZeroState EXCEPT !["lifecycle_rule"] = m]
     \/ pc = "destinationHash" /\ \E m \in DestinationMaps :
          d = [ZeroState EXCEPT !["replication_configuration"] = m]
  /\ op = "read"
  /\ id = BucketName
  /\ isNew = FALSE
  /\ state = ZeroState
  /\ config = ZeroState
  /\ readFault = NoFault
  /\ force = FALSE
  /\ exists = TRUE
  /\ rem = ZeroState
  /\ objects = {}
  /\ listed = NoListing
  /\ calls = << >>
  /\ transients = 0
  /\ timedOut = FALSE
  /\ result = << >>
  /\ failedAt = ""
  /\ depth = 0
  /\ bucketDeletes = 0
  /\ wrote = FALSE
  /\ disturbed = FALSE
  /\ region = ""
  /\ metaRegion = ""
  /\ req = NoRequest

\* the hash function returns; result is its digest input
HashReturns(name, input) ==
  /\ pc = name
  /\ pc' = "done"
  /\ op' = name
  /\ result' = input
  /\ UNCHANGED << resourceVars, remoteVars, calls, transients, timedOut,
                  failedAt, deleteVars, config, readFault, createVars >>

ApplyExpirationHash ==
  HashReturns("expirationHash", expirationHash(d["lifecycle_rule"]))

ApplyTransitionHash ==
  HashReturns("transitionHash", transitionHash(d["lifecycle_rule"]))

ApplyDestinationHash ==
  HashReturns("destinationHash", destinationHash(d["replication_configuration"]))

NextHash ==
  \/ ApplyExpirationHash
  \/ ApplyTransitionHash
  \/ ApplyDestinationHash

SpecHash == InitHash /\ [][NextHash]_vars

\* ---------------------------------------------------------------- SpecHead
\* the answers of the remote to the HeadBucket of a read pass of a bucket
\* that exists: none, or an error other than 404
HeadFaults == { NoFault, [step |-> "HeadBucket", code |-> "AccessDenied"] }

\* read passes of a recorded bucket that may be removed out of band
NextHead ==
  \/ Refresh
  \/ ExternalRemove
  \/ \E fault \in HeadFaults : Read(fault)
  \/ Return

SpecHead == InitRead /\ [][NextHead]_vars

\* ------------------------------------------------------------ SpecEndpoint
\* the computed website attributes; their values are texts, written as the
\* sequence of their pieces, the empty sequence being the empty string
EndpointAttributes == { "website_endpoint", "website_domain" }

\* a record as d holds it with the computed website attributes
WithEndpoint(dd, endpoint, domain) ==
  [f \in Facets \cup EndpointAttributes |->
     IF f = "website_endpoint" THEN endpoint
     ELSE IF f = "website_domain" THEN domain
     ELSE dd[f]]

\* a remote configuration together with the location constraint of the bucket
WithLocation(r, location) ==
  [f \in Facets \cup { "LocationConstraint" } |->
     IF f = "LocationConstraint" THEN location ELSE r[f]]

\* the location constraints GetBucketLocation answers: none (us-east-1), a
\* region of the older endpoint syntax, one of the newer syntax and one of the
\* aws-cn partition
BucketLocations == { "", "eu-west-1", "eu-central-1", "cn-north-1" }

normalizeRegion(rgn) == IF rgn = "" THEN "us-east-1" ELSE rgn

isOldRegion(rgn) ==
  rgn \in { "ap-northeast-1", "ap-southeast-1", "ap-southeast-2", "eu-west-1",
            "sa-east-1", "us-east-1", "us-gov-west-1", "us-west-1", "us-west-2" }

\* the regions of the sample that endpoints.PartitionForRegion places in the
\* aws-cn partition
ChinaRegions == { "cn-north-1" }

WebsiteDomainUrl(rgn) ==
  LET r == normalizeRegion(rgn)
  IN IF isOldRegion(r) THEN << "s3-website-", r, ".amazonaws.com" >>
     ELSE IF r \in ChinaRegions THEN << "s3-website.", r, ".amazonaws.com.cn" >>
     ELSE << "s3-website.", r, ".amazonaws.com" >>

WebsiteEndpoint(bucket, rgn) ==
  [Endpoint |-> bucket \o << "." >> \o WebsiteDomainUrl(rgn),
   Domain |-> WebsiteDomainUrl(rgn)]

\* a website delete that leaves the computed attributes as they are
WebsiteDeletedKeepingEndpoint(dd) == dd

\* the record after resourceAwsS3BucketWebsiteDelete got nil from the remote
WebsiteDeleted(dd) == WithEndpoint(dd, << >>, << >>)

\* websiteEndpoint: nil without a recorded website, else the endpoint of the
\* bucket in the region GetBucketLocation answers
websiteEndpoint(dd) ==
  IF dd["website"] = "" THEN {} ELSE { WebsiteEndpoint(id, rem["LocationConstraint"]) }

\* the answers of the remote followed in the read passes: no error, the
\* website read refused or answered "no configuration", the location read
\* refused, the tag read refused
EndpointFaults ==
  { NoFault,
    [step |-> "website", code |-> "AccessDenied"],
    [step |-> "website", code |-> "NoSuchWebsiteConfiguration"],
    [step |-> "website_endpoint", code |-> "AccessDenied"],
    [step |-> "tags", code |-> "AccessDenied"] }

\* a recorded bucket without website, in a region of the sample
InitEndpoint ==
  /\ pc = "idle"
  /\ op = "create"
  /\ id = BucketName
  /\ isNew = FALSE
  /\ exists = TRUE
  /\ \E location \in BucketLocations :
       rem = WithLocation(SyncedRemote(Merge(ConfigOf({}, ""), ZeroState)), location)
  /\ state = WithEndpoint(ReadInto(Merge(ConfigOf({}, ""), ZeroState),
                                   Len(ReadSteps), NoFault), << >>, << >>)
  /\ d = state
  /\ region = ""
  /\ force = FALSE
  /\ objects = {}
  /\ listed = NoListing
  /\ calls = << >>
  /\ transients = 0
  /\ timedOut = FALSE
  /\ result = "ok"
  /\ failedAt = ""
  /\ depth = 0
  /\ bucketDeletes = 0
  /\ wrote = FALSE
  /\ disturbed = FALSE
  /\ config = ZeroState
  /\ readFault = NoFault
  /\ metaRegion = ""
  /\ req = NoRequest

\* resourceAwsS3BucketUpdate called with a configuration that sets or leaves
\* out the website block and nothing else
UpdateWebsite(v) ==
  /\ pc = "idle"
  /\ result = "ok"
  /\ op' = "update"
  /\ isNew' = FALSE
  /\ config' = [ConfigOf({}, "") EXCEPT !["website"] = v]
  /\ d' = WithEndpoint(Merge(config', state), state["website_endpoint"],
                       state["website_domain"])
  /\ calls' = << >>
  /\ readFault' = NoFault
  /\ pc' = IF v # state["website"] THEN "website" ELSE "Read"
  /\ result' = ""
  /\ failedAt' = ""
  /\ UNCHANGED << id, state, force, remoteVars, transients, timedOut,
                  deleteVars, createVars >>

\* resourceAwsS3BucketWebsiteUpdate: the website is deleted when the block is
\* absent and put otherwise; r is the answer of the remote
resourceAwsS3BucketWebsiteUpdate(r) ==
  /\ pc = "website"
  /\ LET c == CallOf("website", d["website"])
     IN /\ calls' = Append(calls, Logged(c, "website", d["website"], r))
        /\ IF r = "ok"
           THEN /\ rem' = [rem EXCEPT !["website"] = d["website"]]
                /\ d' = IF d["website"] = "" THEN WebsiteDeleted(d) ELSE d
                /\ pc' = "Read"
                /\ UNCHANGED << result, failedAt >>
           ELSE /\ pc' = "done"
                /\ result' = r
                /\ failedAt' = "website"
                /\ UNCHANGED << rem, d >>
  /\ UNCHANGED << op, id, isNew, state, force, exists, objects, transients,
                  timedOut, deleteVars, config, readFault, createVars >>

\* resourceAwsS3BucketRead of a record with the computed website attributes
ReadEndpoint(fault) ==
  /\ pc = "Read"
  /\ fault # NoFault => fault.code \in ReadFaultsAt(fault.step)
  /\ (fault.step = "website_endpoint" =>
        ReadInto(d, ReadPos("website"), fault)["website"] # "")
  /\ (fault.code \in ToleratedAt(fault.step) => rem[fault.step] = "")
  /\ LET n == IF fault # NoFault /\ ReadFails(fault)
              THEN ReadPos(fault.step) - 1 ELSE Len(ReadSteps)
         read == ReadInto(d, n, fault)
         found == IF n >= ReadPos("website_endpoint")
                  THEN websiteEndpoint(read) ELSE {}
     IN /\ d' = IF found = {}
                THEN WithEndpoint(read, d["website_endpoint"], d["website_domain"])
                ELSE LET w == CHOOSE x \in found : TRUE
                     IN WithEndpoint(read, w.Endpoint, w.Domain)
        /\ result' = IF n < Len(ReadSteps) THEN fault.code ELSE "ok"
        /\ failedAt' = IF n < Len(ReadSteps) THEN "Read" ELSE ""
  /\ readFault' = fault
  /\ pc' = "done"
  /\ UNCHANGED << op, id, isNew, state, force, remoteVars, calls, transients,
                  timedOut, deleteVars, config, createVars >>

\* the website configuration of the bucket is put or deleted out of band
ExternalWebsiteChange(v) ==
  /\ pc = "idle"
  /\ rem["website"] # v
  /\ rem' = [rem EXCEPT !["website"] = v]
  /\ UNCHANGED << pc, op, resourceVars, exists, objects, calls, transients,
                  timedOut, result, failedAt, deleteVars, config, readFault,
                  createVars >>

NextEndpoint ==
  \/ \E v \in { "", OnValue("website") } : UpdateWebsite(v)
  \/ \E r \in { "ok", "AccessDenied" } : resourceAwsS3BucketWebsiteUpdate(r)
  \/ \E fault \in EndpointFaults : ReadEndpoint(fault)
  \/ \E v \in { "", OnValue("website") } : ExternalWebsiteChange(v)
  \/ Refresh
  \/ Return

SpecEndpoint == InitEndpoint /\ [][NextEndpoint]_vars

\* ================================================================ properties
\* the states of an update pass before its read pass: a synchronizer's call is
\* pending, the read pass is about to start, or a synchronizer has failed
InUpdatePass ==
  /\ op \in { "create", "update" }
  /\ \/ pc \in Facets \cup { "Read" }
     \/ pc = "done" /\ failedAt \in Facets

\* C1: when a pass applies a non-empty replication configuration while the
\* desired versioning is absent or not enabled, the replication synchronizer
\* returns the validation error without having issued any remote call: no call
\* of the replication facet is pending or logged, and the pass gets no further
C1_ReplicationRequiresVersioning ==
  ( /\ InUpdatePass
    /\ d["replication_configuration"] # ""
    /\ d["replication_configuration"] # state["replication_configuration"]
    /\ d["versioning"] # "enabled" )
  => /\ pc \notin { "replication_configuration",
                    "server_side_encryption_configuration",
                    "object_lock_configuration", "Read" }
     /\ \A i \in 1..Len(calls) :
          calls[i].facet \notin { "replication_configuration",
                                  "server_side_encryption_configuration",
                                  "object_lock_configuration" }
     /\ (pc = "done" /\ failedAt = "replication_configuration")
          => result = "versioning must be enabled"

\* an update disables versioning and changes replication: versioning is put,
\* then the replication synchronizer refuses
C1_Witness ==
  /\ op = "update"
  /\ pc = "done"
  /\ failedAt = "replication_configuration"
  /\ result = "versioning must be enabled"
  /\ d["versioning"] = "disabled"
  /\ \E i \in 1..Len(calls) :
       calls[i].call = "PutBucketVersioning" /\ calls[i].resp = "ok"

\* C2: in a pass that changes both versioning and replication, the versioning
\* put has returned successfully before the replication synchronizer issues a
\* call, and no replication call precedes a versioning call
C2_VersioningBeforeReplication ==
  ( /\ InUpdatePass
    /\ d["versioning"] # state["versioning"]
    /\ d["replication_configuration"] # state["replication_configuration"] )
  => /\ ( \/ pc = "replication_configuration"
          \/ \E i \in 1..Len(calls) : calls[i].facet = "replication_configuration" )
        => \E j \in 1..Len(calls) :
             /\ calls[j].call = "PutBucketVersioning"
             /\ calls[j].resp = "ok"
             /\ \A i \in 1..Len(calls) :
                  calls[i].facet = "replication_configuration" => j < i
     /\ \A i, j \in 1..Len(calls) :
          ( /\ calls[i].facet = "replication_configuration"
            /\ calls[j].facet = "versioning" ) => j < i

\* an update that enables versioning and sets replication has put both
C2_Witness ==
  /\ op = "update"
  /\ \E i, j \in 1..Len(calls) :
       /\ j < i
       /\ calls[j].call = "PutBucketVersioning"
       /\ calls[j].resp = "ok"
       /\ calls[i].call = "PutBucketReplication"

\* C3: when a synchronizer returns an error, that error ends the pass and is
\* its result, no synchronizer sequenced after the failing one has issued a
\* call, and every facet applied in the pass holds the value that was put for
\* it, each having been put once
C3_ErrorAbortsPassWithoutRollback ==
  /\ \A i \in 1..Len(calls) :
       ( /\ calls[i].facet # ""
         /\ calls[i].resp # "ok"
         /\ \A j \in (i+1)..Len(calls) : calls[j].facet # calls[i].facet )
       => /\ i = Len(calls)
          /\ \/ pc = calls[i].facet
             \/ /\ pc = "done"
                /\ result = calls[i].resp
                /\ failedAt = calls[i].facet
  /\ \A i \in 1..Len(calls) :
       (calls[i].facet # "" /\ calls[i].resp = "AccessDenied") => pc = "done"
  /\ (op \in { "create", "update" } /\ pc = "done" /\ failedAt \in Facets)
       => /\ result \notin { "", "ok" }
          /\ \A i \in 1..Len(calls) :
               calls[i].facet # "" => Pos(calls[i].facet) <= Pos(failedAt)
  /\ \A i \in 1..Len(calls) :
       (calls[i].facet # "" /\ calls[i].resp = "ok")
       => /\ rem[calls[i].facet] =
               IF calls[i].facet = "versioning"
               THEN (IF calls[i].arg = "enabled" THEN "enabled" ELSE "disabled")
               ELSE calls[i].arg
          /\ \A j \in 1..Len(calls) :
               (calls[j].facet = calls[i].facet /\ calls[j].resp = "ok") => j = i

\* a pass applied one facet and was then refused at a later one
C3_Witness ==
  /\ op = "update"
  /\ pc = "done"
  /\ failedAt \in Facets
  /\ result = "AccessDenied"
  /\ Len(calls) >= 2
  /\ calls[1].resp = "ok"
  /\ calls[1].facet # failedAt
  /\ rem[calls[1].facet] # state[calls[1].facet]

\* C4: a delete without force_destroy never lists or batch-deletes: its only
\* call is the one DeleteBucket, and when that reports the bucket not empty
\* the delete returns that error
C4_UnforcedDeleteRemovesNothing ==
  (op = "delete" /\ ~force)
  => /\ pc \notin { "ListObjectVersions", "DeleteObjects" }
     /\ depth = 0
     /\ Len(calls) <= 1
     /\ \A i \in 1..Len(calls) : calls[i].call = "DeleteBucket"
     /\ (calls # << >> /\ calls[1].resp = "BucketNotEmpty")
          => pc = "done" /\ result = "BucketNotEmpty" /\ failedAt = "DeleteBucket"

\* an unforced delete of a bucket holding objects has returned
C4_Witness ==
  /\ op = "delete"
  /\ ~force
  /\ pc = "done"
  /\ result = "BucketNotEmpty"
  /\ objects = Objects

\* C5: a forced delete that met no writer and no remote answer other than
\* success and not-empty returns success with the bucket emptied and gone,
\* after exactly one successful DeleteBucket; DeleteBucket succeeds only on
\* the emptied bucket and at most once
C5_ForcedDeleteEmptiesThenDeletes ==
  op = "delete"
  => /\ bucketDeletes <= 1
     /\ bucketDeletes = 1 => (objects = {} /\ ~exists)
     /\ ( /\ force
          /\ pc = "done"
          /\ ~wrote
          /\ \A i \in 1..Len(calls) : calls[i].resp \in { "ok", "BucketNotEmpty" } )
        => /\ result = "ok"
           /\ objects = {}
           /\ ~exists
           /\ bucketDeletes = 1
           /\ Len(calls) = 1

\* a forced delete emptied a bucket over several levels and succeeded
C5_Witness ==
  /\ op = "delete"
  /\ force
  /\ pc = "done"
  /\ result = "ok"
  /\ ~wrote
  /\ depth = MaxDepth
  /\ bucketDeletes = 1

\* C6 as stated: a forced delete that has started always returns
C6_AlwaysTerminates == (op = "delete" /\ pc = "DeleteBucket") ~> (pc = "done")

\* C6: a forced delete returns unless it keeps being interfered with: from
\* every DeleteBucket attempt on, either the delete returns, or a writer adds
\* an entry or a batch delete leaves listed entries behind
C6_TerminatesUnlessDisturbed ==
  (op = "delete" /\ pc = "DeleteBucket") ~> (pc = "done" \/ disturbed)

\* a forced delete is at a deep level again after having been interfered with
C6_Witness ==
  /\ op = "delete"
  /\ force
  /\ pc = "DeleteBucket"
  /\ depth = MaxDepth
  /\ disturbed

\* C7: when DeleteBucket answers NoSuchBucket, at any level and for either
\* value of force_destroy, the delete returns success and that answer is the
\* last call of the delete
C7_MissingBucketIsSuccess ==
  ( /\ op = "delete"
    /\ calls # << >>
    /\ calls[1].call = "DeleteBucket"
    /\ calls[1].resp = "NoSuchBucket" )
  => /\ pc = "done"
     /\ result = "ok"
     /\ Len(calls) = 1

\* the bucket disappeared while a forced delete was emptying it
C7_Witness ==
  /\ op = "delete"
  /\ force
  /\ depth >= 1
  /\ pc = "done"
  /\ result = "ok"
  /\ calls = << [call |-> "DeleteBucket", facet |-> "", arg |-> "",
                 resp |-> "NoSuchBucket", final |-> FALSE] >>

\* C8: an error answer to ListObjectVersions or DeleteObjects is the last call
\* of the delete, which returns that error
C8_ListOrBatchErrorAborts ==
  \A i \in 1..Len(calls) :
    ( /\ calls[i].call \in { "ListObjectVersions", "DeleteObjects" }
      /\ calls[i].resp \notin { "ok", "partial" } )
    => /\ i = Len(calls)
       /\ pc = "done"
       /\ result = calls[i].resp
       /\ failedAt = calls[i].call

\* the batch delete of a forced delete was refused
C8_Witness ==
  /\ op = "delete"
  /\ pc = "done"
  /\ result = "AccessDenied"
  /\ Len(calls) = 3
  /\ calls[3].call = "DeleteObjects"
  /\ calls[3].resp = "AccessDenied"
  /\ objects # {}

\* C9: an answer to CreateBucket that is an error other than OperationAborted
\* is the last call of Create, which returns it with the ID unset and without
\* having run any synchronizer
C9_CreateFailsFast ==
  \A i \in 1..Len(calls) :
    ( /\ calls[i].call = "CreateBucket"
      /\ calls[i].resp \notin { "ok", "OperationAborted" } )
    => /\ i = Len(calls)
       /\ pc = "done"
       /\ result = calls[i].resp
       /\ failedAt = "CreateBucket"
       /\ id = << >>
       /\ ~exists
       /\ \A j \in 1..Len(calls) : calls[j].call = "CreateBucket"

\* CreateBucket was retried after OperationAborted and then refused
C9_Witness ==
  /\ op = "create"
  /\ pc = "done"
  /\ Len(calls) = 2
  /\ calls[1].resp = "OperationAborted"
  /\ calls[2].call = "CreateBucket"
  /\ calls[2].resp = "AccessDenied"

\* C10: at CreateBucket, PutBucketPolicy and PutBucketReplication, an attempt
\* made after the deadline follows a retryable error of the same call, is made
\* once, and its outcome is the outcome of the call site; and a retryable
\* error is never returned without that attempt having been made
C10_OneFinalAttempt ==
  LET sites == { "CreateBucket", "PutBucketPolicy", "PutBucketReplication" }
      retryable(c) ==
        CASE c = "CreateBucket" -> { "OperationAborted" }
          [] c = "PutBucketPolicy" -> { "MalformedPolicy", "NoSuchBucket" }
          [] OTHER -> { "NoSuchBucket", "InvalidRequest" }
      site(e) == IF e.facet = "" THEN "CreateBucket" ELSE e.facet
  IN /\ \A i \in 1..Len(calls) :
          (calls[i].call \in sites /\ calls[i].final)
          => /\ i > 1
             /\ calls[i-1].call = calls[i].call
             /\ ~calls[i-1].final
             /\ calls[i-1].resp \in retryable(calls[i].call)
             /\ i < Len(calls)
                  => (calls[i].resp = "ok" /\ calls[i+1].call # calls[i].call)
             /\ calls[i].resp # "ok"
                  => (i = Len(calls) /\ pc = "done" /\ result = calls[i].resp)
             /\ (calls[i].resp = "ok" /\ i = Len(calls))
                  => (~timedOut /\ pc # site(calls[i]))
     /\ ( /\ pc = "done"
          /\ calls # << >>
          /\ calls[Len(calls)].call \in sites
          /\ calls[Len(calls)].resp \in retryable(calls[Len(calls)].call) )
        => calls[Len(calls)].final
     /\ \A i \in 1..Len(calls) :
          (calls[i].call \in sites /\ timedOut /\ i = Len(calls))
          => (pc = site(calls[i]) /\ ~calls[i].final
              /\ calls[i].resp \in retryable(calls[i].call))

\* the final attempt of PutBucketPolicy succeeded and the pass went on
C10_Witness ==
  \E i \in 1..Len(calls) :
    /\ calls[i].call = "PutBucketPolicy"
    /\ calls[i].final
    /\ calls[i].resp = "ok"
    /\ calls[i-1].resp = "MalformedPolicy"
    /\ pc # "policy"

\* C11: at CreateBucket, PutBucketPolicy and PutBucketReplication an error
\* outside the retryable set of the call is answered to an attempt that is the
\* last call of the operation: the call is not made again, no other call
\* follows, and the operation returns that error
C11_NonRetryableEndsOperation ==
  LET sites == { "CreateBucket", "PutBucketPolicy", "PutBucketReplication" }
      retryable(c) ==
        CASE c = "CreateBucket" -> { "OperationAborted" }
          [] c = "PutBucketPolicy" -> { "MalformedPolicy", "NoSuchBucket" }
          [] OTHER -> { "NoSuchBucket", "InvalidRequest" }
  IN \A i \in 1..Len(calls) :
       ( /\ calls[i].call \in sites
         /\ calls[i].resp # "ok"
         /\ calls[i].resp \notin retryable(calls[i].call) )
       => /\ i = Len(calls)
          /\ pc = "done"
          /\ result = calls[i].resp
          /\ \A j \in 1..(i-1) :
               calls[j].call = calls[i].call
               => calls[j].resp \in retryable(calls[i].call)

\* PutBucketReplication was refused with an InvalidRequest that is not about
\* versioning, right after versioning had been put
C11_Witness ==
  /\ pc = "done"
  /\ Len(calls) >= 2
  /\ calls[Len(calls)].call = "PutBucketReplication"
  /\ calls[Len(calls)].resp = "InvalidRequestOther"
  /\ calls[Len(calls) - 1].call = "PutBucketVersioning"
  /\ result = "InvalidRequestOther"

\* C12: a Create whose bucket name has a character no region allows stops at
\* the validation: it returns an error, no remote call is ever made, the ID
\* stays unset and no bucket exists; and a CreateBucket request is only ever
\* sent for a name without such a character
C12_InvalidNameStopsCreate ==
  LET bad(name) == \E i \in 1..Len(name) : name[i] = "!"
  IN /\ (op = "create" /\ bad(req.Bucket))
          => /\ pc \in { "validateS3BucketName", "done" }
             /\ calls = << >>
             /\ id = << >>
             /\ ~exists
             /\ pc = "done" => (result \notin { "", "ok" }
                                /\ failedAt = "validateS3BucketName")
     /\ (op = "create" /\ failedAt = "validateS3BucketName")
          => (pc = "done" /\ calls = << >> /\ id = << >> /\ ~exists)
     /\ \A i \in 1..Len(calls) :
          calls[i].call = "CreateBucket" => ~bad(calls[i].arg.Bucket)

\* Create returned the error of the validation for the name "my!"
C12_Witness ==
  /\ op = "create"
  /\ pc = "done"
  /\ req.Bucket = << "m", "y", "!" >>
  /\ failedAt = "validateS3BucketName"
  /\ result # ""
  /\ calls = << >>
  /\ id = << >>

\* C13: for a target region other than us-east-1 the validation lets a name
\* pass if and only if its length is 3 to 63, every character is a lowercase
\* letter, a digit, a hyphen or a period, it is not four dot-separated groups
\* of one to three digits, it neither starts nor ends with a period and has no
\* two periods in a row; "ab", "192.168.1.1" and 200 characters with
\* underscores do not pass
C13_DnsNameRule ==
  LET name == req.Bucket
      n == Len(name)
      target == IF region # "" THEN region ELSE metaRegion
      dots == { i \in 1..n : name[i] = "." }
      ipShaped ==
        /\ Cardinality(dots) = 3
        /\ \A i \in (1..n) \ dots : name[i] \in Digits
        /\ n >= 1 /\ 1 \notin dots /\ n \notin dots
        /\ \A i \in 1..(n-1) : ~(i \in dots /\ (i+1) \in dots)
        /\ \A i \in 1..(n-3) : \E j \in i..(i+3) : j \in dots
      good ==
        /\ n >= 3 /\ n <= 63
        /\ \A i \in 1..n : name[i] \in Lower \cup Digits \cup { "-", "." }
        /\ ~ipShaped
        /\ 1 \notin dots /\ n \notin dots
        /\ \A i \in 1..(n-1) : ~(i \in dots /\ (i+1) \in dots)
      accepted == pc = "CreateBucket"
      rejected == pc = "done" /\ failedAt = "validateS3BucketName" /\ result # ""
  IN (op = "create" /\ target # "us-east-1" /\ pc \in { "CreateBucket", "done" })
     => /\ accepted \/ rejected
        /\ accepted <=> good
        /\ name \in { << "a", "b" >>,
                      << "1", "9", "2", ".", "1", "6", "8", ".", "1", ".", "1" >>,
                      [i \in 1..200 |-> IF i % 2 = 1 THEN "a" ELSE "_"] }
             => rejected

\* outside us-east-1 "192.168.1.1" was rejected as an IP address
C13_Witness ==
  /\ op = "create"
  /\ pc = "done"
  /\ region = "eu-west-1"
  /\ req.Bucket = << "1", "9", "2", ".", "1", "6", "8", ".", "1", ".", "1" >>
  /\ failedAt = "validateS3BucketName"
  /\ result = "must not be formatted as an IP address"

\* C14: for the target region us-east-1 the validation lets a name pass if and
\* only if it is not empty, has at most 255 characters, and every character is
\* a letter of either case, a digit, a hyphen, a period or an underscore; short
\* names, IP-shaped names and names with leading, trailing or doubled periods
\* pass
C14_ClassicNameRule ==
  LET name == req.Bucket
      n == Len(name)
      target == IF region # "" THEN region ELSE metaRegion
      good ==
        /\ n >= 1 /\ n <= 255
        /\ \A i \in 1..n :
             name[i] \in Lower \cup Upper \cup Digits \cup { "-", ".", "_" }
      accepted == pc = "CreateBucket"
      rejected == pc = "done" /\ failedAt = "validateS3BucketName" /\ result # ""
  IN (op = "create" /\ target = "us-east-1" /\ pc \in { "CreateBucket", "done" })
     => /\ accepted \/ rejected
        /\ accepted <=> good
        /\ name \in { << "a", "b" >>, << "." >>, << ".", "." >>,
                      << "a", ".", "." >>, << ".", "a", "." >>,
                      << "1", "9", "2", ".", "1", "6", "8", ".", "1", ".", "1" >> }
             => accepted

\* in us-east-1 a name of 200 characters with underscores was accepted
C14_Witness ==
  /\ op = "create"
  /\ pc = "CreateBucket"
  /\ region = "us-east-1"
  /\ Len(req.Bucket) = 200
  /\ req.Bucket[2] = "_"
  /\ req.LocationConstraint = ""

\* C15: every CreateBucket request has a location constraint exactly when the
\* target region, which is the configured region if one is set and the
\* provider's region otherwise, is not us-east-1, and the constraint is then
\* that region
C15_LocationConstraint ==
  LET target == IF region # "" THEN region ELSE metaRegion
  IN \A i \in 1..Len(calls) :
       calls[i].call = "CreateBucket"
       => /\ (calls[i].arg.LocationConstraint # "") <=> (target # "us-east-1")
          /\ calls[i].arg.LocationConstraint # ""
               => calls[i].arg.LocationConstraint = target

\* a bucket was created in the configured region of a provider set to
\* us-east-1
C15_Witness ==
  /\ calls # << >>
  /\ calls[1].call = "CreateBucket"
  /\ calls[1].resp = "ok"
  /\ region = "eu-west-1"
  /\ metaRegion = "us-east-1"
  /\ calls[1].arg.LocationConstraint = "eu-west-1"

\* C16: during Create no PutBucketAcl is issued and the pass never stops at
\* the acl synchronizer; the acl travels in the CreateBucket request, and
\* exactly one such request is accepted once the bucket is created
C16_AclOnlyInCreateBucket ==
  (op = "create" /\ pc # "idle")
  => /\ pc # "acl"
     /\ \A i \in 1..Len(calls) :
          /\ calls[i].call # "PutBucketAcl"
          /\ calls[i].facet # "acl"
          /\ calls[i].call = "CreateBucket" => calls[i].arg.ACL = d["acl"]
     /\ Cardinality({ i \in 1..Len(calls) :
                        calls[i].call = "CreateBucket" /\ calls[i].resp = "ok" })
          = (IF id # << >> THEN 1 ELSE 0)

\* a bucket with a public-read acl and a policy was created and its pass is
\* over
C16_Witness ==
  /\ op = "create"
  /\ pc = "Read"
  /\ d["acl"] = "public-read"
  /\ calls[1].call = "CreateBucket"
  /\ calls[1].arg.ACL = "public-read"
  /\ calls[1].resp = "ok"

\* C17 as stated: an update pass that ran to its end for a desired state that
\* differs from the recorded one in any facet has issued PutBucketAcl with the
\* desired acl
C17_AclReappliedOnAnyChange ==
  (op = "update" /\ pc = "Read" /\ d # state)
  => \E i \in 1..Len(calls) :
       calls[i].call = "PutBucketAcl" /\ calls[i].arg = d["acl"]

\* C17: an update pass after creation issues PutBucketAcl, once and with the
\* desired acl, exactly when the desired acl differs from the recorded one and
\* no facet before acl failed; a change in another facet alone issues none
C17_AclReappliedOnAclChange ==
  LET aclCalls == { i \in 1..Len(calls) : calls[i].call = "PutBucketAcl" }
      before == { "tags", "policy", "cors_rule", "website", "versioning" }
      reached == \/ pc = "Read"
                 \/ pc \in Facets \ (before \cup { "acl" })
                 \/ pc = "done" /\ failedAt \in Facets \ (before \cup { "acl" })
  IN (op = "update" /\ InUpdatePass)
     => /\ \A i \in aclCalls :
             /\ calls[i].arg = d["acl"]
             /\ d["acl"] # state["acl"]
        /\ d["acl"] = state["acl"] => (aclCalls = {} /\ pc # "acl")
        /\ (reached /\ d["acl"] # state["acl"])
             => \E i \in aclCalls :
                  /\ calls[i].resp = "ok"
                  /\ \A j \in aclCalls : calls[j].resp = "ok" => j = i

\* an update pass that changed the policy and left the acl alone ran to its
\* end
C17_Witness ==
  /\ op = "update"
  /\ pc = "Read"
  /\ d["policy"] # state["policy"]
  /\ d["acl"] = state["acl"]
  /\ \E i \in 1..Len(calls) : calls[i].call = "PutBucketPolicy"
  /\ \A i \in 1..Len(calls) : calls[i].call # "PutBucketAcl"

\* C18: an update pass whose desired state equals the recorded state issues no
\* call for policy, CORS, website, versioning, acl, logging, lifecycle,
\* acceleration, request payer, replication, encryption or object lock, and
\* goes straight to the read pass
C18_NoChangeNoCall ==
  (op = "update" /\ InUpdatePass /\ d = state)
  => /\ pc = "Read"
     /\ \A i \in 1..Len(calls) :
          calls[i].facet \notin
            { "policy", "cors_rule", "website", "versioning", "acl", "logging",
              "lifecycle_rule", "acceleration_status", "request_payer",
              "replication_configuration",
              "server_side_encryption_configuration",
              "object_lock_configuration" }

\* an update pass was started for a bucket with a recorded policy and an
\* unchanged desired state
C18_Witness ==
  /\ op = "update"
  /\ pc = "Read"
  /\ d = state
  /\ state["policy"] = "set"
  /\ calls = << >>

\* C19: in the pass Create triggers, every facet other than acl whose desired
\* value is not empty and whose turn has passed without an error got the put
\* of its synchronizer, with the desired value, accepted by the remote
C19_CreationPassPutsEveryFacet ==
  LET put ==
        [f \in Facets \ { "acl" } |->
           CASE f = "tags" -> "PutBucketTagging"
             [] f = "policy" -> "PutBucketPolicy"
             [] f = "cors_rule" -> "PutBucketCors"
             [] f = "website" -> "PutBucketWebsite"
             [] f = "versioning" -> "PutBucketVersioning"
             [] f = "logging" -> "PutBucketLogging"
             [] f = "lifecycle_rule" -> "PutBucketLifecycleConfiguration"
             [] f = "acceleration_status" -> "PutBucketAccelerateConfiguration"
             [] f = "request_payer" -> "PutBucketRequestPayment"
             [] f = "replication_configuration" -> "PutBucketReplication"
             [] f = "server_side_encryption_configuration" -> "PutBucketEncryption"
             [] OTHER -> "PutObjectLockConfiguration"]
      passed(f) ==
        \/ pc = "Read"
        \/ pc \in Facets /\ Pos(f) < Pos(pc)
        \/ pc = "done" /\ failedAt \in Facets /\ Pos(f) < Pos(failedAt)
  IN (op = "create" /\ InUpdatePass)
     => \A f \in Facets \ { "acl" } :
          (d[f] # "" /\ passed(f))
          => \E i \in 1..Len(calls) :
               /\ calls[i].facet = f
               /\ calls[i].call = put[f]
               /\ calls[i].arg = d[f]
               /\ calls[i].resp = "ok"

\* the pass of a Create with replication and versioning configured ran to its
\* end
C19_Witness ==
  /\ op = "create"
  /\ pc = "Read"
  /\ d["replication_configuration"] = "set"
  /\ d["versioning"] = "enabled"
  /\ \E i \in 1..Len(calls) : calls[i].call = "PutBucketReplication"
  /\ \E i \in 1..Len(calls) : calls[i].call = "PutBucketVersioning"

C22_UnsupportedReadsDegrade ==
  ( /\ pc = "done"
    /\ op = "read"
    /\ readFault.step \in
         { "cors_rule", "website", "acceleration_status", "lifecycle_rule",
           "replication_configuration", "server_side_encryption_configuration",
           "object_lock_configuration" }
    /\ readFault.code # "AccessDenied" )
  => /\ result = "ok"
     /\ failedAt = ""
     /\ d[readFault.step] = ""

\* C23 as stated: a read pass in which the read of a facet was answered an
\* error that is neither "not configured" nor "not supported" returns an
\* error
C23_HardFailureFailsRead ==
  ( /\ pc = "done"
    /\ op = "read"
    /\ readFault.step \in Facets
    /\ readFault.code = "AccessDenied" )
  => /\ result = "AccessDenied"
     /\ failedAt = "Read"

C25_WebsiteNeedsIndexOrRedirect ==
  ( /\ pc \in { "GetBucketWebsite", "done" }
    /\ config["website"].index_document = << >>
    /\ config["website"].redirect_all_requests_to = << >> )
  => /\ pc = "done"
     /\ result = "Must specify either index_document or redirect_all_requests_to."
     /\ failedAt = "website"
     /\ \A i \in 1..Len(calls) : calls[i].call # "PutBucketWebsite"

\* a website block that only names an error document was rejected without a
\* call
C25_Witness ==
  /\ pc = "done"
  /\ config["website"] = Website(<< >>, << "e" >>, << >>)
  /\ result = "Must specify either index_document or redirect_all_requests_to."
  /\ calls = << >>

\* C26: a redirect target with a scheme is put as protocol = scheme and host
\* name = host + path + "?" + query (the query only when it is not empty), one
\* without a scheme as the bare host name without protocol; and the read pass
\* gives back the attribute as it was configured
C26_RedirectRoundTrip ==
  LET r == config["website"].redirect_all_requests_to
      u == urlParse(r)
  IN ( pc = "done" /\ result = "ok" /\ r # << >> )
     => /\ Len(calls) = 1
        /\ calls[1].call = "PutBucketWebsite"
        /\ \E v \in calls[1].arg.RedirectAllRequestsTo :
             IF ~u.err /\ u.Scheme # << >>
             THEN /\ v.Protocol = { u.Scheme }
                  /\ v.HostName =
                       u.Host \o u.Path
                         \o (IF u.RawQuery # << >> THEN << "?" >> \o u.RawQuery
                             ELSE << >>)
             ELSE /\ v.Protocol = {}
                  /\ v.HostName = r
        /\ d["website"].redirect_all_requests_to = r

\* C27: a lifecycle rule with at least one tag is put with a compound AND
\* filter carrying its prefix and its tags, a rule without tags with a bare
\* prefix filter; and the read pass reconstructs the same prefix and the same
\* tag map from the stored filter, also for a tagged rule with an empty prefix
C27_LifecycleFilterRoundTrip ==
  LET r == config["lifecycle_rule"]
  IN ( pc \in { "GetBucketLifecycleConfiguration", "done" } )
     => /\ Len(calls) = 1
        /\ calls[1].call = "PutBucketLifecycleConfiguration"
        /\ LET filter == calls[1].arg
           IN IF DOMAIN r.tags # {}
              THEN /\ filter.Prefix = {}
                   /\ filter.Tag = {}
                   /\ \E and \in filter.And :
                        /\ and.Prefix = { r.prefix }
                        /\ Len(and.Tags) = Cardinality(DOMAIN r.tags)
                        /\ \A k \in DOMAIN r.tags :
                             \E i \in 1..Len(and.Tags) :
                               and.Tags[i] = [Key |-> k, Value |-> r.tags[k]]
              ELSE /\ filter.And = {}
                   /\ filter.Tag = {}
                   /\ filter.Prefix = { r.prefix }
        /\ pc = "done" =>
             /\ d["lifecycle_rule"].prefix = r.prefix
             /\ d["lifecycle_rule"].tags = r.tags

\* a rule with two tags and an empty prefix was put with an AND filter and
\* read back as it was
C27_Witness ==
  /\ pc = "done"
  /\ config["lifecycle_rule"].prefix = ""
  /\ config["lifecycle_rule"].tags = [k \in { "k1", "k2" } |-> IF k = "k1" THEN "v1" ELSE "v2"]
  /\ calls[1].arg.And # {}
  /\ d["lifecycle_rule"] = config["lifecycle_rule"]

\* C28: a level of a forced delete whose DeleteBucket was answered not-empty
\* and that goes on to attempt DeleteBucket again has issued, in between, one
\* ListObjectVersions and then one DeleteObjects and nothing else, and the
\* object list of the DeleteObjects is the delete markers plus the versions of
\* that listing; no level issues either call twice
C28_OneListingOneBatchPerLevel ==
  ( op = "delete" /\ pc # "idle" )
  => /\ Cardinality({ i \in 1..Len(calls) : calls[i].call = "ListObjectVersions" }) <= 1
     /\ Cardinality({ i \in 1..Len(calls) : calls[i].call = "DeleteObjects" }) <= 1
     /\ ( pc = "DeleteBucket" /\ calls # << >> )
        => /\ force
           /\ Len(calls) = 3
           /\ calls[1].call = "DeleteBucket"
           /\ calls[1].resp = "BucketNotEmpty"
           /\ calls[2].call = "ListObjectVersions"
           /\ calls[2].resp = "ok"
           /\ calls[3].call = "DeleteObjects"
           /\ calls[3].arg = listed.DeleteMarkers \cup listed.Versions
     /\ ( Len(calls) >= 1 /\ calls[1].resp = "BucketNotEmpty" /\ force
          /\ pc = "DeleteObjects" )
        => Len(calls) = 2 /\ calls[2].call = "ListObjectVersions"

\* a level listed a delete marker, deleted it in one batch and is about to
\* attempt DeleteBucket again
C28_Witness ==
  /\ op = "delete"
  /\ pc = "DeleteBucket"
  /\ depth = 1
  /\ Len(calls) = 3
  /\ listed.DeleteMarkers # {}
  /\ calls[3].arg = listed.DeleteMarkers
  /\ calls[3].resp = "ok"

\* C29: no update pass fails at once on a NoSuchBucket answer to a put or
\* delete call of a facet synchronizer: when a pass has failed at such a call
\* with NoSuchBucket, the call had been attempted again and that was the last
\* attempt after the retry deadline; the delete calls for encryption,
\* replication and lifecycle are no exception
C29_EverySynchronizerCallRetried ==
  ( /\ op \in { "create", "update" }
    /\ pc = "done"
    /\ failedAt \in Facets
    /\ Len(calls) >= 1
    /\ calls[Len(calls)].facet = failedAt
    /\ calls[Len(calls)].resp = "NoSuchBucket" )
  => /\ calls[Len(calls)].final
     /\ Len(calls) >= 2
     /\ calls[Len(calls) - 1].call = calls[Len(calls)].call
     /\ calls[Len(calls) - 1].facet = failedAt

\* C30: the step in which CreateBucket succeeds enters the update pass; an
\* update pass leaves its synchronizers either for the read pass, the last
\* call having succeeded and no error being set, or for its end with the error
\* of the synchronizer that failed, and then nothing has been read; the read
\* pass is one step whose result is the result of the operation, and after it
\* the operation only returns
C30_UpdateThenOneRead ==
  [][ /\ ( pc = "CreateBucket" /\ ~exists /\ exists' ) => InUpdatePass'
      /\ ( pc = "idle" /\ op' = "update" ) => InUpdatePass'
      /\ ( pc \in Facets /\ pc' \notin Facets )
         => \/ /\ pc' = "Read"
               /\ calls'[Len(calls')].resp = "ok"
               /\ result' = ""
               /\ failedAt' = ""
            \/ /\ pc' = "done"
               /\ failedAt' \in Facets
               /\ result' \notin { "", "ok" }
               /\ d' = d
               /\ readFault' = NoFault
      /\ ( pc # "Read" /\ pc' = "Read" /\ op' \in { "create", "update" } )
         => \A i \in 1..Len(calls') :
              ( calls'[i].facet # ""
                /\ \A j \in (i + 1)..Len(calls') : calls'[j].facet # calls'[i].facet )
              => calls'[i].resp = "ok"
      /\ ( pc = "Read" /\ exists )
         => /\ pc' = "done"
            /\ \/ result' = "ok" /\ failedAt' = ""
               \/ result' = readFault'.code /\ failedAt' = "Read" /\ result' # ""
      /\ ( pc = "done" /\ pc' # "done" ) => pc' = "idle" ]_vars

\* a creation put a logging configuration after CreateBucket, read the bucket
\* back and returned success
C30_Witness ==
  /\ op = "create"
  /\ pc = "done"
  /\ result = "ok"
  /\ Len(calls) = 2
  /\ calls[1].call = "CreateBucket"
  /\ calls[2].call = "PutBucketLogging"
  /\ calls[2].resp = "ok"
  /\ d["request_payer"] = "BucketOwner"
  /\ d["logging"] = "set"

\* C31: the expiration put for an expiration block carries exactly one of
\* date, days and the expired-object-delete-marker flag: the date when the
\* block's date is not empty, otherwise the days when they are greater than 0,
\* otherwise the flag
C31_ExpirationCarriesOneField ==
  ( pc = "done" /\ result = "ok" )
  => /\ Len(calls) = 1
     /\ Cardinality(calls[1].arg) = Cardinality(config["lifecycle_rule"].expiration)
     /\ \A e \in config["lifecycle_rule"].expiration :
          \E i \in calls[1].arg :
            /\ Cardinality(i.Date) + Cardinality(i.Days)
                 + Cardinality(i.ExpiredObjectDeleteMarker) = 1
            /\ IF e.date # "" THEN i.Date = { e.date }
               ELSE IF e.days > 0 THEN i.Days = { e.days }
               ELSE i.ExpiredObjectDeleteMarker = { e.expired_object_delete_marker }

\* a block that gives a date, days and the flag was put with the date alone
C31_Witness ==
  /\ pc = "done"
  /\ result = "ok"
  /\ config["lifecycle_rule"].expiration = { Expiration("2019-01-01", 2, TRUE) }
  /\ calls[1].arg =
       { [err |-> FALSE, Date |-> { "2019-01-01" }, Days |-> {},
          ExpiredObjectDeleteMarker |-> {}] }

\* C32: every replication rule put uses one schema: with a filter block it
\* carries a filter, a priority and delete-marker replication disabled and no
\* top-level prefix; without a filter block it carries a top-level prefix and
\* no filter, priority or delete-marker replication
C32_RuleUsesOneSchema ==
  \A i \in 1..Len(calls) :
    calls[i].call = "PutBucketReplication"
    => LET rr == config["replication_configuration"]
           rule == calls[i].arg
           v2 == /\ Cardinality(rule.Filter) = 1
                 /\ rule.Priority = { rr.priority }
                 /\ rule.DeleteMarkerReplication = { "Disabled" }
                 /\ rule.Prefix = {}
           v1 == /\ rule.Prefix = { rr.prefix }
                 /\ rule.Filter = {}
                 /\ rule.Priority = {}
                 /\ rule.DeleteMarkerReplication = {}
       IN /\ v1 \/ v2
          /\ HasFilter(rr) => v2
          /\ Len(rr.filter) = 0 => v1

\* a rule with a filter of prefix and tag and a priority was put in the newer
\* schema
C32_Witness ==
  /\ pc = "done"
  /\ result = "ok"
  /\ config["replication_configuration"] =
       Rule("Enabled", "", 1,
            << { [prefix |-> "logs/", tags |-> [k \in { "k1" } |-> "v1"]] } >>)
  /\ calls[1].arg.Prefix = {}
  /\ calls[1].arg.Priority = { 1 }
  /\ \E f \in calls[1].arg.Filter : f.And # {}

\* C33: a rule that has a filter block and also sets the top-level prefix is
\* rejected by the replication synchronizer with a validation error before any
\* call: no PutBucketReplication is issued
C33_FilterWithLegacyPrefixRejected ==
  ( /\ pc = "done"
    /\ HasFilter(config["replication_configuration"])
    /\ config["replication_configuration"].prefix # "" )
  => /\ result \notin { "", "ok" }
     /\ failedAt = "replication_configuration"
     /\ calls = << >>

\* C34: for the expiration and transition fingerprints, a map in which an
\* optional attribute is present with its default value (days = 0, date = "",
\* expired_object_delete_marker = false) has the same digest input as the map
\* without that attribute
C34_DefaultHashesAsOmitted ==
  ( pc = "done" /\ op \in { "expirationHash", "transitionHash" } )
  => \A k \in DOMAIN d["lifecycle_rule"] \ { "storage_class" } :
       d["lifecycle_rule"][k] = DefaultOf(k)
       => LET omitted == Restrict(d["lifecycle_rule"],
                                  DOMAIN d["lifecycle_rule"] \ { k })
          IN result = IF op = "expirationHash" THEN expirationHash(omitted)
                      ELSE transitionHash(omitted)

\* C35: the digest input of a replication destination tells apart any two
\* destinations that differ in bucket, storage_class, replica_kms_key_id,
\* account_id or access_control_translation
C35_DestinationHashSeparates ==
  ( pc = "done" /\ op = "destinationHash" )
  => \A other \in DestinationMaps :
       other # d["replication_configuration"]
       => destinationHash(other) # result

\* a Create whose CreateBucket succeeded and whose update pass stopped at a
\* synchronizer
CreateFailedInPass ==
  /\ op = "create"
  /\ pc = "done"
  /\ failedAt \in Facets
  /\ \E i \in 1..Len(calls) : calls[i].call = "CreateBucket" /\ calls[i].resp = "ok"

\* C36: when CreateBucket succeeded and a synchronizer of the update pass that
\* follows fails, Create returns that error, the ID stays recorded (before and
\* after the return) and the bucket still exists remotely; a Create never
\* issues DeleteBucket
C36_FailedCreateKeepsBucket ==
  /\ [](CreateFailedInPass =>
           /\ result \notin { "", "ok" }
           /\ id = req.Bucket
           /\ id # << >>
           /\ exists)
  /\ [](op = "create" =>
           \A i \in 1..Len(calls) : calls[i].call # "DeleteBucket")
  /\ [][CreateFailedInPass =>
           /\ id' = id
           /\ result' = result
           /\ exists']_vars

\* a Create stopped by the remote's answer to a synchronizer's call, after
\* CreateBucket succeeded
C36_Witness ==
  /\ CreateFailedInPass
  /\ calls[Len(calls)].resp = "AccessDenied"
  /\ calls[Len(calls)].call # "CreateBucket"
  /\ result = "AccessDenied"

\* C37: a read pass whose HeadBucket is answered 404 (the bucket is gone)
\* clears the ID, returns nil and reads no facet, the recorded attributes
\* staying as they were; a read pass whose HeadBucket is answered any other
\* error returns that error and leaves the ID and the attributes unchanged
C37_ReadOfMissingBucket ==
  [][(pc = "Read" /\ pc' = "done") =>
       /\ ~exists =>
            /\ id' = << >>
            /\ result' = "ok"
            /\ d' = d
       /\ (exists /\ readFault'.step = "HeadBucket") =>
            /\ result' = readFault'.code
            /\ result' \notin { "", "ok" }
            /\ id' = id
            /\ id' # << >>
            /\ d' = d]_vars

\* a read pass found the bucket gone, the remote configuration it had
\* recorded being non-empty
C37_Witness ==
  /\ op = "read"
  /\ pc = "done"
  /\ ~exists
  /\ id = << >>
  /\ result = "ok"
  /\ d["versioning"] = "enabled"

\* C38: a read pass gets the remote policy only when the policy it starts
\* with is non-empty: when that policy is empty no policy read takes place
\* (so none can fail) and the policy stays empty at the end of the pass,
\* whatever policy the remote holds
C38_PolicyReadOnlyWhenRecorded ==
  [][(pc = "Read" /\ pc' = "done" /\ d["policy"] = "") =>
       /\ d'["policy"] = ""
       /\ readFault'.step # "policy"]_vars

\* a read pass that started with an empty policy went through all its steps
\* while the remote holds a policy
C38_Witness ==
  /\ op = "read"
  /\ pc = "done"
  /\ result = "ok"
  /\ readFault = NoFault
  /\ exists
  /\ rem["policy"] # ""
  /\ d["policy"] = ""

\* C39: after an update pass that removed the recorded website and returned
\* nil, website_endpoint and website_domain are both empty; a read pass
\* changes the two attributes only when a website is recorded at its end (it
\* then holds the endpoint of the bucket), and leaves them as they were
\* otherwise
C39_WebsiteEndpointFollowsWebsite ==
  /\ []( ( /\ op = "update"
           /\ pc = "done"
           /\ result = "ok"
           /\ config["website"] = ""
           /\ state["website"] # "" )
         => /\ d["website_endpoint"] = << >>
            /\ d["website_domain"] = << >> )
  /\ [][(pc = "Read" /\ pc' = "done") =>
          /\ d'["website"] = "" =>
               /\ d'["website_endpoint"] = d["website_endpoint"]
               /\ d'["website_domain"] = d["website_domain"]
          /\ d'["website_endpoint"] # d["website_endpoint"] =>
               /\ d'["website"] # ""
               /\ d'["website_endpoint"] = WebsiteEndpoint(id, rem["LocationConstraint"]).Endpoint
               /\ d'["website_domain"] = WebsiteEndpoint(id, rem["LocationConstraint"]).Domain]_vars

\* an update pass removed a website whose endpoint was recorded, and its read
\* pass went through
C39_Witness ==
  /\ op = "update"
  /\ pc = "done"
  /\ result = "ok"
  /\ config["website"] = ""
  /\ state["website"] # ""
  /\ state["website_endpoint"] # << >>
  /\ d["website_endpoint"] = << >>
  /\ Len(calls) = 1
  /\ calls[1].call = "DeleteBucketWebsite"

====
